---- MODULE Spec2Model ----
(***************************************************************************)
(* State management for eager execution                                    *)
(* (tensorflow/python/eager/context.py): the Context object, its lazily    *)
(* created engine handle, the per-thread scoped state, the module-wide     *)
(* device parsing cache and the configuration overlay.                     *)
(*                                                                         *)
(* Python values are encoded uniformly so that TLC can compare them:       *)
(*   - an optional value is a sequence: None is <<>>, a value v is <<v>>;  *)
(*   - a device name (a string) is the sequence of its "/"-separated       *)
(*     segments, each segment the sequence of its ":"-separated parts, so  *)
(*     "/job:worker/device:CPU:0" is                                       *)
(*     << <<"job","worker">>, <<"device","CPU","0">> >> and "" is <<>>;    *)
(*   - a DeviceSpec object is a heap cell: its identity is its index in    *)
(*     device_spec_heap, its fields are the record stored there.           *)
(***************************************************************************)
EXTENDS Integers, Sequences, FiniteSets, TLC

\* ---------------------------------------------------------------- bounds
\* Number of native threads using the Context.
NumThreads == 2
\* How many engine calls may fail (raise) in a run.
MaxEngineFailures == 1
\* How many operations (top-level calls) the threads begin in a run, in all.
MaxCalls == 2
\* The same for a run that sets configuration knobs.
MaxKnobCalls == 3
\* The same for a run of device scopes (each entry and each exit is a call).
MaxDeviceCalls == 3
\* How deep one thread nests device scopes, or mode scopes.
MaxDepth == 2
\* How many mode scope entries and exits the threads begin in a run, in all.
MaxModeCalls == 4
\* max_items and max_tensor_size of the tensor caches, and how many cache
\* operations the threads begin in a run, in all.
MaxItems == 2
MaxTensorSize == 1
MaxCacheCalls == 5

\* ------------------------------------------------------ program constants
GRAPH_MODE == 0
EAGER_MODE == 1
SYNC == 0
ASYNC == 1

Threads == 1..NumThreads

\* ------------------------------------------------------- optional values
None == <<>>
Some(x) == <<x>>
IsNone(o) == o = <<>>
Val(o) == o[1]

\* ------------------------------------------------ device names and specs
\* (tensorflow/python/framework/device.py is not part of the sources at
\* hand; DeviceSpec is modelled from its documented behaviour.)
EmptyName == <<>>

EmptySpecFields ==
    [job |-> None, replica |-> None, task |-> None,
     device_type |-> None, device_index |-> None]

Upper(s) ==
    CASE s = "cpu" -> "CPU"
      [] s = "gpu" -> "GPU"
      [] OTHER -> s

\* One "/"-separated segment of a device string applied to the fields parsed
\* so far; the field "error" records a malformed string.
ParseSegment(acc, y) ==
    LET ly == Len(y) IN
    IF acc.error \/ ly = 0 THEN acc
    ELSE IF ly = 2 /\ y[1] = "job" THEN [acc EXCEPT !.spec.job = Some(y[2])]
    ELSE IF ly = 2 /\ y[1] = "replica" THEN [acc EXCEPT !.spec.replica = Some(y[2])]
    ELSE IF ly = 2 /\ y[1] = "task" THEN [acc EXCEPT !.spec.task = Some(y[2])]
    ELSE IF ly \in {1, 2} /\ Upper(y[1]) \in {"CPU", "GPU"} THEN
        IF ~IsNone(acc.spec.device_type) THEN [acc EXCEPT !.error = TRUE]
        ELSE [acc EXCEPT !.spec.device_type = Some(Upper(y[1])),
                         !.spec.device_index =
                             IF ly = 2 /\ y[2] # "*" THEN Some(y[2]) ELSE None]
    ELSE IF ly = 3 /\ y[1] = "device" THEN
        IF ~IsNone(acc.spec.device_type) THEN [acc EXCEPT !.error = TRUE]
        ELSE [acc EXCEPT !.spec.device_type = Some(y[2]),
                         !.spec.device_index =
                             IF y[3] # "*" THEN Some(y[3]) ELSE None]
    ELSE IF y[1] # "" THEN [acc EXCEPT !.error = TRUE]
    ELSE acc

RECURSIVE ParseFrom(_, _, _)
ParseFrom(acc, name, i) ==
    IF i > Len(name) THEN acc
    ELSE ParseFrom(ParseSegment(acc, name[i]), name, i + 1)

\* DeviceSpec.from_string(name): [spec |-> fields, error |-> malformed]
FromString(name) ==
    ParseFrom([spec |-> EmptySpecFields, error |-> FALSE], name, 1)

\* DeviceSpec.to_string()
SpecToString(s) ==
    (IF IsNone(s.job) THEN <<>> ELSE << <<"job", Val(s.job)>> >>)
    \o (IF IsNone(s.replica) THEN <<>> ELSE << <<"replica", Val(s.replica)>> >>)
    \o (IF IsNone(s.task) THEN <<>> ELSE << <<"task", Val(s.task)>> >>)
    \o (IF IsNone(s.device_type) THEN <<>>
        ELSE << <<"device", Val(s.device_type),
                  IF IsNone(s.device_index) THEN "*" ELSE Val(s.device_index)>> >>)

\* DeviceSpec.merge_from(dev): the fields dev has override, the others stay.
MergeFrom(base, dev) ==
    [job |-> IF IsNone(dev.job) THEN base.job ELSE dev.job,
     replica |-> IF IsNone(dev.replica) THEN base.replica ELSE dev.replica,
     task |-> IF IsNone(dev.task) THEN base.task ELSE dev.task,
     device_type |-> IF IsNone(dev.device_type) THEN base.device_type
                     ELSE dev.device_type,
     device_index |-> IF IsNone(dev.device_index) THEN base.device_index
                      ELSE dev.device_index]

\* pydev.canonical_name(name)
CanonicalName(name) == SpecToString(FromString(name).spec)

\* --------------------------------------------------------- engine boundary
\* The ordered device list TFE_ContextListDevices reports: the local CPU and
\* GPU of the job the engine runs as ("localhost" until a server definition
\* names another job).
DeviceName(job, type) ==
    << <<"job", job>>, <<"replica", "0">>, <<"task", "0">>, <<"device", type, "0">> >>

EngineDeviceList(job) ==
    << [name |-> DeviceName(job, "CPU"), type |-> "CPU"],
       [name |-> DeviceName(job, "GPU"), type |-> "GPU"] >>

\* Server definitions a caller may pass (a ServerDef is modelled by the job
\* name it gives the engine).
ServerDefs == {"worker"}

\* ------------------------------------------------------------------ state
VARIABLES
    base_config,                \* Context._config
    context_handle,             \* Context._context_handle
    context_devices,            \* Context._context_devices
    num_gpus,                   \* Context._num_gpus
    initialize_lock,            \* Context._initialize_lock: its holder
    device_policy,              \* Context._device_policy
    c_execution_mode,           \* Context._execution_mode
    server_def,                 \* Context._server_def
    collective_ops_server_def,  \* Context._collective_ops_server_def
    overlay,                    \* the "values set after construction"
    tld,                        \* Context._thread_local_data, per thread
    device_parsing_cache,       \* module-level _device_parsing_cache
    device_spec_heap,           \* the DeviceSpec objects created so far
    scopes,                     \* per thread: the active device() scopes
    last_exit,                  \* per thread: history of device() scope exits
    context_switches,           \* Context._context_switches.stack, per thread
    mode_scopes,                \* per thread: the active _mode() scopes
    last_mode_exit,             \* per thread: history of _mode() scope exits
    zeros_cache,                \* per thread: _ThreadLocalData.zeros_cache
    pc,                         \* per thread: position in the running call
    frame,                      \* per thread: locals of the running call
    ret,                        \* per thread: outcome of the last call
    calls,                      \* calls begun so far, by all threads
    engine,                     \* the execution engine behind pywrap_tensorflow
    hist,                       \* history of the lazy initialization
    _context,                   \* module-level _context
    _context_lock,              \* module-level _context_lock: its holder
    contexts                    \* Context objects _initialize_context made

vars ==
    <<base_config, context_handle, context_devices, num_gpus, initialize_lock,
      device_policy, c_execution_mode, server_def, collective_ops_server_def,
      overlay, tld, device_parsing_cache, device_spec_heap, scopes, last_exit,
      context_switches, mode_scopes, last_mode_exit, zeros_cache,
      pc, frame,
      ret, calls, engine, hist, _context, _context_lock, contexts>>

ctxFields ==
    <<base_config, device_policy, c_execution_mode>>
deviceVars ==
    <<device_parsing_cache, device_spec_heap, scopes, last_exit>>
modeVars ==
    <<context_switches, mode_scopes, last_mode_exit>>
singletonVars ==
    <<_context, _context_lock, contexts>>

\* ------------------------------------------------- configuration overlay
RewriterToggles ==
    {"layout_optimizer", "constant_folding", "shape_optimization", "remapping",
     "arithmetic_optimization", "dependency_optimization", "loop_optimization",
     "function_optimization", "debug_stripper", "scoped_allocator_optimization",
     "pin_to_host_optimization", "implementation_selector"}
RewriterBools == {"disable_model_pruning", "disable_meta_optimizer"}
RewriterOptions == RewriterToggles \cup RewriterBools \cup {"min_graph_nodes"}

\* config_pb2.ConfigProto(): every field at its protobuf default.
DefaultConfigProto ==
    [per_process_gpu_memory_fraction |-> 0,
     allow_growth |-> FALSE,
     global_jit_level |-> "DEFAULT",
     intra_op_parallelism_threads |-> 0,
     inter_op_parallelism_threads |-> 0,
     allow_soft_placement |-> FALSE,
     log_device_placement |-> FALSE,
     rewrite_options |->
         [o \in RewriterOptions |->
             IF o \in RewriterToggles THEN "DEFAULT"
             ELSE IF o \in RewriterBools THEN FALSE
             ELSE 0]]

\* executing_eagerly that reads the state of the first thread.
executing_eagerly_First(t) == tld[1].is_eager

\* Context.executing_eagerly()
executing_eagerly(t) == tld[t].is_eager

\* RewriteOption that takes the toggle of layout_optimizer for every toggle.
RewriteOption_OneToggle(o, base) ==
    LET toggle == overlay.optimizer_experimental_options[
                      IF o \in RewriterToggles THEN "layout_optimizer" ELSE o]
    IN
    IF IsNone(toggle) THEN base
    ELSE IF o \in RewriterToggles THEN (IF Val(toggle) THEN "ON" ELSE "OFF")
    ELSE Val(toggle)

\* rewriter_toggle and rewriter_bool of Context.config, lines 673-689.
RewriteOption(o, base) ==
    LET toggle == overlay.optimizer_experimental_options[o] IN
    IF IsNone(toggle) THEN base
    ELSE IF o \in RewriterToggles THEN (IF Val(toggle) THEN "ON" ELSE "OFF")
    ELSE Val(toggle)

\* Context.config, lines 651-708: the values set after construction are
\* written over config for thread t.
ApplyDeltas(config, t) ==
    [per_process_gpu_memory_fraction |->
         IF ~IsNone(overlay.gpu_per_process_memory_fraction)
         THEN Val(overlay.gpu_per_process_memory_fraction)
         ELSE config.per_process_gpu_memory_fraction,
     allow_growth |->
         IF ~IsNone(overlay.gpu_per_process_memory_growth)
         THEN Val(overlay.gpu_per_process_memory_growth)
         ELSE config.allow_growth,
     global_jit_level |->
         IF ~IsNone(overlay.optimizer_jit)
         THEN (IF Val(overlay.optimizer_jit) THEN "ON_1" ELSE "OFF")
         ELSE config.global_jit_level,
     intra_op_parallelism_threads |->
         IF ~IsNone(overlay.intra_op_parallelism_threads)
         THEN Val(overlay.intra_op_parallelism_threads)
         ELSE config.intra_op_parallelism_threads,
     inter_op_parallelism_threads |->
         IF ~IsNone(overlay.inter_op_parallelism_threads)
         THEN Val(overlay.inter_op_parallelism_threads)
         ELSE config.inter_op_parallelism_threads,
     allow_soft_placement |->
         IF ~IsNone(overlay.soft_device_placement)
         THEN Val(overlay.soft_device_placement)
         ELSE executing_eagerly(t),
     log_device_placement |->
         IF ~IsNone(overlay.log_device_placement)
         THEN Val(overlay.log_device_placement)
         ELSE config.log_device_placement,
     rewrite_options |->
         [o \in RewriterOptions |-> RewriteOption(o, config.rewrite_options[o])]]

\* Context.config without the CopyFrom of lines 648-649.
Config_NoBase(t) == ApplyDeltas(DefaultConfigProto, t)

\* Context.config: the ConfigProto with all runtime deltas applied.
Config(t) ==
    ApplyDeltas(IF IsNone(base_config) THEN DefaultConfigProto
                ELSE Val(base_config), t)

\* ------------------------------------------------------------ initial state
\* A base configuration a caller may hand to Context(config=...).
SampleConfig ==
    [DefaultConfigProto EXCEPT !.intra_op_parallelism_threads = 4,
                               !.log_device_placement = TRUE]

\* Context.__init__: no value has been set after construction.
InitialOverlay ==
    [gpu_per_process_memory_fraction |-> None,
     gpu_per_process_memory_growth |-> None,
     optimizer_jit |-> None,
     intra_op_parallelism_threads |-> None,
     inter_op_parallelism_threads |-> None,
     soft_device_placement |-> None,
     log_device_placement |-> None,
     optimizer_experimental_options |-> [o \in RewriterOptions |-> None]]

\* _ThreadLocalData.__init__ under default_execution_mode dm; the starting
\* device spec is the module-level object _starting_device_spec (heap cell 1).
InitialThreadLocalData(dm) ==
    [device_spec |-> 1,
     device_name |-> EmptyName,
     mode |-> dm,
     is_eager |-> (dm = EAGER_MODE),
     scope_name |-> "",
     execution_mode |-> SYNC,
     function_call_options |-> None]

EmptyFrame ==
    [caller |-> "", opts |-> None, device_list |-> <<>>, i |-> 0,
     name |-> None, new_device_spec |-> EmptySpecFields,
     key |-> 0, value |-> [num_elements |-> 0]]

\* built: the call derived the function call options it returns; dropped: the
\* call cleared function call options its thread had cached.
NoResult ==
    [op |-> "", status |-> "none", error |-> "", handle |-> None,
     devices |-> None, gpus |-> None, initialized |-> FALSE, value |-> None,
     built |-> FALSE, dropped |-> FALSE]

\* One active device() scope: the locals its generator keeps until it exits.
ScopeRecord(name, old_name, old_spec, new_name, new_spec) ==
    [name |-> name, old_device_name |-> old_name, old_device_spec |-> old_spec,
     new_device_name |-> new_name, new_device_spec |-> new_spec]

\* nested: every exit of the thread so far was of its innermost scope.
NoExit ==
    [index |-> 0, depth |-> 0, body_raised |-> FALSE, nested |-> TRUE,
     scope |-> ScopeRecord(None, EmptyName, 1, EmptyName, 1),
     device_name |-> EmptyName, device_spec |-> 1]

InitialEngine ==
    [job |-> "localhost", failures |-> 0,
     newContextCalls |-> 0, newContextFailures |-> 0, opensWithHandle |-> 0,
     opened |-> None,
     initServerDefCalls |-> 0, initCollectiveCalls |-> 0,
     serverDefCalls |-> 0, collectiveCalls |-> 0,
     asyncForThread |-> [t \in Threads |-> None],
     policyForThread |-> [t \in Threads |-> None]]

\* The record _mode pushes on entering eager mode, line 470:
\* ContextSwitch(is_building_function, enter_context_fn, device_stack).
EagerSwitch ==
    [is_building_function |-> FALSE, enter_context_fn |-> "eager_mode",
     device_stack |-> None]

\* _ContextSwitchStack.__init__(eager), lines 178-188.
InitialSwitchStack(eager) == IF eager THEN <<EagerSwitch>> ELSE <<>>

\* One active _mode() scope: the locals its generator keeps until it exits.
ModeRecord(mode, old_mode, old_is_eager) ==
    [mode |-> mode, old_mode |-> old_mode, old_is_eager |-> old_is_eager]

\* The history of a thread's mode scopes before any exit: the mode and the
\* stack its thread-local state was created with. nested: every exit of the
\* thread so far was of its innermost scope.
NoModeExit(dm) ==
    [index |-> 0, depth |-> 0, body_raised |-> FALSE, nested |-> TRUE,
     scope |-> ModeRecord(dm, dm, dm = EAGER_MODE),
     initial_mode |-> dm,
     initial_stack |-> InitialSwitchStack(dm = EAGER_MODE)]

\* _EagerTensorCache.__init__, lines 64-67: an empty OrderedDict. The
\* dictionary is the sequence of its items <<key, value>> in iteration order;
\* ordered tells an OrderedDict from a plain dict. History: puts are the keys
\* of the values admitted since the cache was created or last flushed, in
\* order, and flushed tells whether it ever was flushed.
EmptyTensorCache ==
    [data |-> <<>>, ordered |-> TRUE, puts |-> <<>>, flushed |-> FALSE]

\* An engine none of whose calls fails.
ReliableEngine == [InitialEngine EXCEPT !.failures = MaxEngineFailures]

\* mode_set: the thread and the mode of the last execution mode set that
\* returned; mode_staged: the mode of the last one that returned while no
\* handle existed; policy_staged: the same for the placement policy.
InitialHist ==
    [outcome |-> "none", checked |-> FALSE, staged |-> <<None, None>>,
     mode_set |-> None, mode_staged |-> None, policy_staged |-> None]

\* The state after Context(config, execution_mode=..., server_def=...),
\* whatever the other arguments and the process-wide default_execution_mode.
InitContext(execution_mode) ==
    /\ base_config \in {None, Some(SampleConfig)}
    /\ context_handle = None
    /\ context_devices = None
    /\ num_gpus = None
    /\ initialize_lock = None
    /\ device_policy = "SILENT"
    /\ c_execution_mode = IF IsNone(execution_mode) THEN SYNC
                          ELSE Val(execution_mode)
    /\ server_def \in {None} \cup {Some(sd) : sd \in ServerDefs}
    /\ collective_ops_server_def = None
    /\ overlay = InitialOverlay
    /\ \E dm \in {GRAPH_MODE, EAGER_MODE} :
           tld = [t \in Threads |-> InitialThreadLocalData(dm)]
    /\ device_parsing_cache = <<>>
    /\ device_spec_heap = <<EmptySpecFields>>
    /\ scopes = [t \in Threads |-> <<>>]
    /\ last_exit = [t \in Threads |-> NoExit]
    /\ context_switches =
           [t \in Threads |-> InitialSwitchStack(executing_eagerly(t))]
    /\ mode_scopes = [t \in Threads |-> <<>>]
    /\ last_mode_exit = [t \in Threads |-> NoModeExit(tld[t].mode)]
    /\ zeros_cache = [t \in Threads |-> EmptyTensorCache]
    /\ pc = [t \in Threads |-> "idle"]
    /\ frame = [t \in Threads |-> EmptyFrame]
    /\ ret = [t \in Threads |-> NoResult]
    /\ calls = 0
    /\ engine \in {InitialEngine, ReliableEngine}
    /\ hist = InitialHist
    /\ _context = None
    /\ _context_lock = None
    /\ contexts = 0

\* The same with no execution mode given.
InitAny == InitContext(None)

\* Context() in a process where eager execution is the default.
Init ==
    /\ InitAny
    /\ base_config = None
    /\ engine = InitialEngine
    /\ \A t \in Threads : tld[t].mode = EAGER_MODE

\* ------------------------------------------------------- call bookkeeping
\* Thread t starts the top-level call op.
BeginWithin(t, op, budget) ==
    /\ pc[t] = "idle"
    /\ calls < budget
    /\ calls' = calls + 1

Begin(t, op) ==
    /\ BeginWithin(t, op, MaxCalls)
    /\ frame' = [frame EXCEPT ![t] = [EmptyFrame EXCEPT !.caller = op]]

\* The call t has just started goes on at position p.
Goto(t, op, p) ==
    /\ pc' = [pc EXCEPT ![t] = p]
    /\ ret' = [ret EXCEPT ![t] = [NoResult EXCEPT !.op = op]]

\* The running call of t ends by raising err.
Raise(t, err) ==
    /\ pc' = [pc EXCEPT ![t] = "idle"]
    /\ ret' = [ret EXCEPT ![t] = [@ EXCEPT !.status = "raise", !.error = err]]

\* The call op, which t has just started, raises err at once.
Fail(t, op, err) ==
    /\ pc' = [pc EXCEPT ![t] = "idle"]
    /\ ret' = [ret EXCEPT ![t] =
                  [NoResult EXCEPT !.op = op, !.status = "raise", !.error = err]]

\* The running call of t returns.
Return(t, r) ==
    /\ pc' = [pc EXCEPT ![t] = "idle"]
    /\ ret' = [ret EXCEPT ![t] = r]

\* The lock as thread t leaves a `with self._initialize_lock` block it may be in.
Released(t) == IF initialize_lock = Some(t) THEN None ELSE initialize_lock

\* The call t has just started goes into _initialize_handle_and_devices.
GotoInit(t, op) ==
    /\ pc' = [pc EXCEPT ![t] = "init_lock"]
    /\ ret' = [ret EXCEPT ![t] = [NoResult EXCEPT !.op = op, !.initialized = TRUE]]

\* ---------------------------------------------------- lazy initialization
\* Whether the engine call about to be made may fail in this run.
MayFail == engine.failures < MaxEngineFailures

\* A lazy initialization without the check under the lock: whoever gets the
\* lock opens a handle.
InitLock_NoRecheck(t) ==
    /\ pc[t] = "init_lock"
    /\ initialize_lock = None
    /\ initialize_lock' = Some(t)
    /\ pc' = [pc EXCEPT ![t] = "init_config"]
    /\ hist' = [hist EXCEPT !.outcome = "running"]
    /\ UNCHANGED <<singletonVars, ctxFields, modeVars, zeros_cache, context_handle, context_devices, num_gpus,
                   server_def, collective_ops_server_def, overlay, tld,
                   deviceVars, frame, ret, calls, engine>>

\* _initialize_handle_and_devices, lines 338-341: take the lock, return at
\* once if the handle exists, assert that no device list exists.
InitLock(t) ==
    /\ pc[t] = "init_lock"
    /\ initialize_lock = None
    /\ IF ~IsNone(context_handle)
       THEN /\ pc' = [pc EXCEPT ![t] = IF frame[t].caller = "device"
                                       THEN "device_first" ELSE "after_init"]
            /\ UNCHANGED <<initialize_lock, ret, hist>>
       ELSE IF ~IsNone(context_devices)
       THEN /\ Raise(t, "AssertionError")
            /\ UNCHANGED <<initialize_lock, hist>>
       ELSE /\ initialize_lock' = Some(t)
            /\ pc' = [pc EXCEPT ![t] = "init_config"]
            /\ hist' = [hist EXCEPT !.outcome = "running"]
            /\ UNCHANGED ret
    /\ UNCHANGED <<singletonVars, ctxFields, modeVars, zeros_cache, context_handle, context_devices, num_gpus,
                   server_def, collective_ops_server_def, overlay, tld,
                   deviceVars, frame, calls, engine>>

\* lines 342-350: the options the handle is to be opened with.
InitConfig(t) ==
    /\ pc[t] = "init_config"
    /\ frame' = [frame EXCEPT ![t].opts =
                    Some([config |-> Config(t),
                          device_policy |-> device_policy,
                          async |-> (c_execution_mode = ASYNC)])]
    /\ pc' = [pc EXCEPT ![t] = "init_open"]
    /\ UNCHANGED <<singletonVars, ctxFields, modeVars, zeros_cache, context_handle, context_devices, num_gpus,
                   initialize_lock, server_def, collective_ops_server_def,
                   overlay, tld, deviceVars, ret, calls, engine, hist>>

\* The same step in an initialization that takes the lock with acquire() and
\* gives it back with release() at the end, not with a `with` block: a failure
\* of the engine leaves the lock taken.
InitOpen_KeepsLock(t) ==
    /\ pc[t] = "init_open"
    /\ \E ok \in BOOLEAN :
        IF ok
        THEN /\ context_handle' = Some(engine.newContextCalls + 1)
             /\ engine' = [engine EXCEPT !.newContextCalls = @ + 1,
                                         !.opensWithHandle =
                                             IF IsNone(context_handle) THEN @ ELSE @ + 1,
                                         !.opened = frame[t].opts]
             /\ pc' = [pc EXCEPT ![t] = "init_serverdef"]
             /\ UNCHANGED <<ret, hist>>
        ELSE /\ MayFail
             /\ engine' = [engine EXCEPT !.newContextCalls = @ + 1,
                                         !.newContextFailures = @ + 1,
                                         !.opensWithHandle =
                                             IF IsNone(context_handle) THEN @ ELSE @ + 1,
                                         !.failures = @ + 1]
             /\ hist' = [hist EXCEPT !.outcome = "open_failed"]
             /\ Raise(t, "EngineError")
             /\ UNCHANGED context_handle
    /\ UNCHANGED <<singletonVars, ctxFields, modeVars, zeros_cache,
                   context_devices, num_gpus, initialize_lock, server_def,
                   collective_ops_server_def, overlay, tld, deviceVars, frame,
                   calls>>

\* lines 351-353: TFE_NewContext(opts); the handle is stored as soon as the
\* engine returns it. A failure of the engine leaves the `with` block.
InitOpen(t) ==
    /\ pc[t] = "init_open"
    /\ \E ok \in BOOLEAN :
        IF ok
        THEN /\ context_handle' = Some(engine.newContextCalls + 1)
             /\ engine' = [engine EXCEPT !.newContextCalls = @ + 1,
                                         !.opensWithHandle =
                                             IF IsNone(context_handle) THEN @ ELSE @ + 1,
                                         !.opened = frame[t].opts]
             /\ pc' = [pc EXCEPT ![t] = "init_serverdef"]
             /\ UNCHANGED <<initialize_lock, ret, hist>>
        ELSE /\ MayFail
             /\ engine' = [engine EXCEPT !.newContextCalls = @ + 1,
                                         !.newContextFailures = @ + 1,
                                         !.opensWithHandle =
                                             IF IsNone(context_handle) THEN @ ELSE @ + 1,
                                         !.failures = @ + 1]
             /\ initialize_lock' = None
             /\ hist' = [hist EXCEPT !.outcome = "open_failed"]
             /\ Raise(t, "EngineError")
             /\ UNCHANGED context_handle
    /\ UNCHANGED <<singletonVars, ctxFields, modeVars, zeros_cache, context_devices, num_gpus, server_def,
                   collective_ops_server_def, overlay, tld, deviceVars, frame,
                   calls>>

\* The same step without its assertion: with both definitions staged the
\* if/elif hands the remote one to the engine.
InitServerDef_NoAssert(t) ==
    /\ pc[t] = "init_serverdef"
    /\ engine' =
           IF ~IsNone(server_def)
           THEN [engine EXCEPT !.job = Val(server_def),
                               !.initServerDefCalls = @ + 1]
           ELSE IF ~IsNone(collective_ops_server_def)
           THEN [engine EXCEPT !.job = Val(collective_ops_server_def),
                               !.initCollectiveCalls = @ + 1]
           ELSE engine
    /\ hist' = [hist EXCEPT !.checked = TRUE,
                            !.staged = <<server_def, collective_ops_server_def>>]
    /\ pc' = [pc EXCEPT ![t] = "devices_reset"]
    /\ UNCHANGED <<singletonVars, ctxFields, modeVars, zeros_cache, context_handle, context_devices, num_gpus,
                   initialize_lock, server_def, collective_ops_server_def,
                   overlay, tld, deviceVars, frame, ret, calls>>

\* lines 354-364: at most one of the two staged server definitions is handed
\* to the engine; both staged fails the assertion.
InitServerDef(t) ==
    /\ pc[t] = "init_serverdef"
    /\ IF ~IsNone(server_def) /\ ~IsNone(collective_ops_server_def)
       THEN /\ initialize_lock' = None
            /\ hist' = [hist EXCEPT !.outcome = "conflict", !.checked = TRUE,
                                    !.staged = <<server_def, collective_ops_server_def>>]
            /\ Raise(t, "AssertionError")
            /\ UNCHANGED engine
       ELSE /\ engine' =
                IF ~IsNone(server_def)
                THEN [engine EXCEPT !.job = Val(server_def),
                                    !.initServerDefCalls = @ + 1]
                ELSE IF ~IsNone(collective_ops_server_def)
                THEN [engine EXCEPT !.job = Val(collective_ops_server_def),
                                    !.initCollectiveCalls = @ + 1]
                ELSE engine
            /\ hist' = [hist EXCEPT !.checked = TRUE,
                                    !.staged = <<server_def, collective_ops_server_def>>]
            /\ pc' = [pc EXCEPT ![t] = "devices_reset"]
            /\ UNCHANGED <<initialize_lock, ret>>
    /\ UNCHANGED <<singletonVars, ctxFields, modeVars, zeros_cache, context_handle, context_devices, num_gpus,
                   server_def, collective_ops_server_def, overlay, tld,
                   deviceVars, frame, calls>>

\* _initialize_devices, line 321: the device list is emptied first.
DevicesReset(t) ==
    /\ pc[t] = "devices_reset"
    /\ context_devices' = Some(<<>>)
    /\ pc' = [pc EXCEPT ![t] = "devices_list"]
    /\ UNCHANGED <<singletonVars, ctxFields, modeVars, zeros_cache, context_handle, num_gpus, initialize_lock,
                   server_def, collective_ops_server_def, overlay, tld,
                   deviceVars, frame, ret, calls, engine, hist>>

\* lines 322-325: TFE_ContextListDevices, then the GPU count restarts at 0.
DevicesList(t) ==
    /\ pc[t] = "devices_list"
    /\ \E ok \in BOOLEAN :
        IF ok
        THEN /\ frame' = [frame EXCEPT ![t].device_list = EngineDeviceList(engine.job),
                                       ![t].i = 1]
             /\ num_gpus' = Some(0)
             /\ pc' = [pc EXCEPT ![t] = "devices_loop"]
             /\ UNCHANGED <<initialize_lock, ret, engine, hist>>
        ELSE /\ MayFail
             /\ engine' = [engine EXCEPT !.failures = @ + 1]
             /\ hist' = IF initialize_lock = Some(t)
                        THEN [hist EXCEPT !.outcome = "enum_failed"]
                        ELSE hist
             /\ initialize_lock' = Released(t)
             /\ Raise(t, "EngineError")
             /\ UNCHANGED <<frame, num_gpus>>
    /\ UNCHANGED <<singletonVars, ctxFields, modeVars, zeros_cache, context_handle, context_devices, server_def,
                   collective_ops_server_def, overlay, tld, deviceVars, calls>>

\* lines 326-334: one device is appended per iteration; after the last one the
\* helper returns to lazy initialization (which leaves its `with` block) or
\* to set_server_def / enable_collective_ops (which return).
DevicesLoop(t) ==
    /\ pc[t] = "devices_loop"
    /\ LET list == frame[t].device_list
           i == frame[t].i
       IN
       IF i <= Len(list)
       THEN /\ context_devices' =
                Some(Append(Val(context_devices), CanonicalName(list[i].name)))
            /\ num_gpus' = IF list[i].type = "GPU" THEN Some(Val(num_gpus) + 1)
                           ELSE num_gpus
            /\ frame' = [frame EXCEPT ![t].i = i + 1]
            /\ UNCHANGED <<initialize_lock, pc, ret, hist>>
       ELSE /\ initialize_lock' = Released(t)
            /\ hist' = IF initialize_lock = Some(t)
                       THEN [hist EXCEPT !.outcome = "ok"]
                       ELSE hist
            /\ IF initialize_lock = Some(t)
               THEN /\ pc' = [pc EXCEPT ![t] = IF frame[t].caller = "device"
                                               THEN "device_first" ELSE "after_init"]
                    /\ UNCHANGED ret
               ELSE Return(t, [ret[t] EXCEPT !.status = "ok"])
            /\ UNCHANGED <<context_devices, num_gpus, frame>>
    /\ UNCHANGED <<singletonVars, ctxFields, modeVars, zeros_cache, context_handle, server_def,
                   collective_ops_server_def, overlay, tld, deviceVars, calls,
                   engine>>

\* ------------------------------------------------- operations on the handle
Result(op) == [NoResult EXCEPT !.op = op, !.status = "ok"]

\* Context._handle, lines 431-437: the lock-free check, then initialization.
Handle(t) ==
    /\ Begin(t, "_handle")
    /\ IF IsNone(context_handle)
       THEN GotoInit(t, "_handle")
       ELSE Return(t, [Result("_handle") EXCEPT !.handle = context_handle])
    /\ UNCHANGED <<singletonVars, ctxFields, modeVars, zeros_cache, context_handle, context_devices, num_gpus,
                   initialize_lock, server_def, collective_ops_server_def,
                   overlay, tld, deviceVars, engine, hist>>

\* Context._devices, lines 440-446: the same, on the device list.
Devices(t) ==
    /\ Begin(t, "_devices")
    /\ IF IsNone(context_devices)
       THEN GotoInit(t, "_devices")
       ELSE Return(t, [Result("_devices") EXCEPT !.devices = context_devices])
    /\ UNCHANGED <<singletonVars, ctxFields, modeVars, zeros_cache, context_handle, context_devices, num_gpus,
                   initialize_lock, server_def, collective_ops_server_def,
                   overlay, tld, deviceVars, engine, hist>>

\* Context.num_gpus, lines 744-747: always through the initialization.
NumGpus(t) ==
    /\ Begin(t, "num_gpus")
    /\ GotoInit(t, "num_gpus")
    /\ UNCHANGED <<singletonVars, ctxFields, modeVars, zeros_cache, context_handle, context_devices, num_gpus,
                   initialize_lock, server_def, collective_ops_server_def,
                   overlay, tld, deviceVars, engine, hist>>

\* What the three callers do once _initialize_handle_and_devices has
\* returned: lines 435, 444 and 747 read the attribute again.
AfterInit(t) ==
    /\ pc[t] = "after_init"
    /\ frame[t].caller \in {"_handle", "_devices", "num_gpus"}
    /\ Return(t, CASE frame[t].caller = "_handle" ->
                        [ret[t] EXCEPT !.status = "ok", !.handle = context_handle]
                   [] frame[t].caller = "_devices" ->
                        [ret[t] EXCEPT !.status = "ok", !.devices = context_devices]
                   [] OTHER ->
                        [ret[t] EXCEPT !.status = "ok", !.gpus = num_gpus])
    /\ UNCHANGED <<singletonVars, ctxFields, modeVars, zeros_cache, context_handle, context_devices, num_gpus,
                   initialize_lock, server_def, collective_ops_server_def,
                   overlay, tld, deviceVars, frame, calls, engine, hist>>

\* Context.set_server_def, lines 392-404. Before the handle exists the
\* definition is staged; afterwards it goes to the engine at once and the
\* devices are listed again (outside the initialization lock).
SetServerDef(t, sd) ==
    /\ Begin(t, "set_server_def")
    /\ IF IsNone(sd)
       THEN /\ Fail(t, "set_server_def", "ValueError")
            /\ UNCHANGED <<server_def, engine>>
       ELSE IF IsNone(context_handle)
       THEN /\ server_def' = sd
            /\ Return(t, Result("set_server_def"))
            /\ UNCHANGED engine
       ELSE /\ engine' = [engine EXCEPT !.job = Val(sd), !.serverDefCalls = @ + 1]
            /\ Goto(t, "set_server_def", "devices_reset")
            /\ UNCHANGED server_def
    /\ UNCHANGED <<singletonVars, ctxFields, modeVars, zeros_cache, context_handle, context_devices, num_gpus,
                   initialize_lock, collective_ops_server_def, overlay, tld,
                   deviceVars, hist>>

\* Context.enable_collective_ops, lines 418-428.
EnableCollectiveOps(t, sd) ==
    /\ Begin(t, "enable_collective_ops")
    /\ IF IsNone(sd)
       THEN /\ Fail(t, "enable_collective_ops", "ValueError")
            /\ UNCHANGED <<collective_ops_server_def, engine>>
       ELSE IF IsNone(context_handle)
       THEN /\ collective_ops_server_def' = sd
            /\ Return(t, Result("enable_collective_ops"))
            /\ UNCHANGED engine
       ELSE /\ engine' = [engine EXCEPT !.job = Val(sd), !.collectiveCalls = @ + 1]
            /\ Goto(t, "enable_collective_ops", "devices_reset")
            /\ UNCHANGED collective_ops_server_def
    /\ UNCHANGED <<singletonVars, ctxFields, modeVars, zeros_cache, context_handle, context_devices, num_gpus,
                   initialize_lock, server_def, overlay, tld, deviceVars, hist>>

\* ----------------------------------------------------------- device scopes
\* Device names a caller may ask for: None, "", "gpu:0", "/job:worker" and
\* the malformed "bogus".
RequestedNames ==
    {None, Some(EmptyName), Some(<< <<"gpu", "0">> >>),
     Some(<< <<"job", "worker">> >>), Some(<< <<"bogus">> >>)}

\* Arguments that are no strings, each encoded as a name of one segment no
\* device string has: an int (hashable) and a list (hash() raises TypeError).
NotAString == << <<"<int>">> >>
Unhashable == << <<"<list>">> >>

\* Names device() refuses, and two it accepts.
BadNames == {Some(NotAString), Some(Unhashable), Some(<< <<"bogus">> >>)}
ScopeNames ==
    BadNames \cup {Some(<< <<"gpu", "0">> >>), Some(<< <<"job", "worker">> >>)}

\* The value of a cache entry or a scope as the caller sees it: the name and
\* the fields of the spec object.
Fields(id) == device_spec_heap[id]

\* Lines 599-600 and the yield: the pair is installed and the body runs.
Install(t, name, new_name, new_spec) ==
    /\ tld' = [tld EXCEPT ![t].device_name = new_name,
                          ![t].device_spec = new_spec]
    /\ scopes' = [scopes EXCEPT ![t] =
                     Append(@, ScopeRecord(name, tld[t].device_name,
                                           tld[t].device_spec, new_name, new_spec))]

\* DeviceEnter taking the empty string for None: on a miss it resets too.
DeviceEnter_EmptyResets(t, name) ==
    /\ BeginWithin(t, "device", MaxDeviceCalls)
    /\ Len(scopes[t]) < MaxDepth
    /\ LET old_device_name == tld[t].device_name
           old_device_spec == tld[t].device_spec
           cache_key == <<old_device_name, name>>
           parsed == FromString(Val(name))
           locals == [EmptyFrame EXCEPT !.caller = "device", !.name = name]
       IN
       IF cache_key \in DOMAIN device_parsing_cache
       THEN /\ Install(t, name, device_parsing_cache[cache_key][1],
                       device_parsing_cache[cache_key][2])
            /\ Return(t, Result("device"))
            /\ frame' = [frame EXCEPT ![t] = locals]
       ELSE IF IsNone(name) \/ name = Some(EmptyName)
       THEN /\ Goto(t, "device", "device_store")
            /\ frame' = [frame EXCEPT ![t] = locals]
            /\ UNCHANGED <<tld, scopes>>
       ELSE IF parsed.error
       THEN /\ Fail(t, "device", "ValueError")
            /\ frame' = [frame EXCEPT ![t] = locals]
            /\ UNCHANGED <<tld, scopes>>
       ELSE IF old_device_name # EmptyName
       THEN /\ Goto(t, "device", "device_store")
            /\ frame' = [frame EXCEPT ![t] =
                            [locals EXCEPT !.new_device_spec =
                                MergeFrom(Fields(old_device_spec), parsed.spec)]]
            /\ UNCHANGED <<tld, scopes>>
       ELSE /\ GotoInit(t, "device")
            /\ frame' = [frame EXCEPT ![t] = locals]
            /\ UNCHANGED <<tld, scopes>>
    /\ UNCHANGED <<singletonVars, ctxFields, modeVars, zeros_cache, context_handle, context_devices, num_gpus,
                   initialize_lock, server_def, collective_ops_server_def,
                   overlay, device_parsing_cache, device_spec_heap, last_exit,
                   engine, hist>>

\* Context.device that realizes the handle, when no device is current,
\* before it looks at the requested name.
DeviceEnter_ParsesLate(t, name) ==
    /\ BeginWithin(t, "device", MaxDeviceCalls)
    /\ Len(scopes[t]) < MaxDepth
    /\ LET old_device_name == tld[t].device_name
           old_device_spec == tld[t].device_spec
           cache_key == <<old_device_name, name>>
           parsed == FromString(Val(name))
           locals == [EmptyFrame EXCEPT !.caller = "device", !.name = name]
       IN
       IF name = Some(Unhashable)
       THEN /\ Fail(t, "device", "ValueError")
            /\ frame' = [frame EXCEPT ![t] = locals]
            /\ UNCHANGED <<tld, scopes>>
       ELSE IF cache_key \in DOMAIN device_parsing_cache
       THEN /\ Install(t, name, device_parsing_cache[cache_key][1],
                       device_parsing_cache[cache_key][2])
            /\ Return(t, Result("device"))
            /\ frame' = [frame EXCEPT ![t] = locals]
       ELSE IF IsNone(name)
       THEN /\ Goto(t, "device", "device_store")
            /\ frame' = [frame EXCEPT ![t] = locals]
            /\ UNCHANGED <<tld, scopes>>
       ELSE IF old_device_name = EmptyName
       THEN /\ GotoInit(t, "device")
            /\ frame' = [frame EXCEPT ![t] = locals]
            /\ UNCHANGED <<tld, scopes>>
       ELSE IF name = Some(NotAString) \/ parsed.error
       THEN /\ Fail(t, "device", "ValueError")
            /\ frame' = [frame EXCEPT ![t] = locals]
            /\ UNCHANGED <<tld, scopes>>
       ELSE IF old_device_name # EmptyName
       THEN /\ Goto(t, "device", "device_store")
            /\ frame' = [frame EXCEPT ![t] =
                            [locals EXCEPT !.new_device_spec =
                                MergeFrom(Fields(old_device_spec), parsed.spec)]]
            /\ UNCHANGED <<tld, scopes>>
       ELSE /\ GotoInit(t, "device")
            /\ frame' = [frame EXCEPT ![t] = locals]
            /\ UNCHANGED <<tld, scopes>>
    /\ UNCHANGED <<singletonVars, ctxFields, modeVars, zeros_cache, context_handle, context_devices, num_gpus,
                   initialize_lock, server_def, collective_ops_server_def,
                   overlay, device_parsing_cache, device_spec_heap, last_exit,
                   engine, hist>>

\* Context.device(name), lines 569-594: the cache lookup (a name that cannot
\* be hashed fails there) and, on a miss, the merged spec, as far as it needs
\* no device list.
DeviceEnter(t, name) ==
    /\ BeginWithin(t, "device", MaxDeviceCalls)
    /\ Len(scopes[t]) < MaxDepth
    /\ LET old_device_name == tld[t].device_name
           old_device_spec == tld[t].device_spec
           cache_key == <<old_device_name, name>>
           parsed == FromString(Val(name))
           locals == [EmptyFrame EXCEPT !.caller = "device", !.name = name]
       IN
       IF name = Some(Unhashable)
       THEN /\ Fail(t, "device", "ValueError")
            /\ frame' = [frame EXCEPT ![t] = locals]
            /\ UNCHANGED <<tld, scopes>>
       ELSE IF cache_key \in DOMAIN device_parsing_cache
       THEN /\ Install(t, name, device_parsing_cache[cache_key][1],
                       device_parsing_cache[cache_key][2])
            /\ Return(t, Result("device"))
            /\ frame' = [frame EXCEPT ![t] = locals]
       ELSE IF IsNone(name)
       THEN /\ Goto(t, "device", "device_store")
            /\ frame' = [frame EXCEPT ![t] = locals]
            /\ UNCHANGED <<tld, scopes>>
       ELSE IF name = Some(NotAString) \/ parsed.error
       THEN /\ Fail(t, "device", "ValueError")
            /\ frame' = [frame EXCEPT ![t] = locals]
            /\ UNCHANGED <<tld, scopes>>
       ELSE IF old_device_name # EmptyName
       THEN /\ Goto(t, "device", "device_store")
            /\ frame' = [frame EXCEPT ![t] =
                            [locals EXCEPT !.new_device_spec =
                                MergeFrom(Fields(old_device_spec), parsed.spec)]]
            /\ UNCHANGED <<tld, scopes>>
       ELSE /\ GotoInit(t, "device")
            /\ frame' = [frame EXCEPT ![t] = locals]
            /\ UNCHANGED <<tld, scopes>>
    /\ UNCHANGED <<singletonVars, ctxFields, modeVars, zeros_cache, context_handle, context_devices, num_gpus,
                   initialize_lock, server_def, collective_ops_server_def,
                   overlay, device_parsing_cache, device_spec_heap, last_exit,
                   engine, hist>>

\* Lines 590-592: the first device of the list is the base of the merge.
DeviceFirst(t) ==
    /\ pc[t] = "device_first"
    /\ IF IsNone(context_devices)
       THEN Raise(t, "TypeError") /\ UNCHANGED frame
       ELSE IF Val(context_devices) = <<>>
       THEN Raise(t, "IndexError") /\ UNCHANGED frame
       ELSE /\ frame' = [frame EXCEPT ![t].new_device_spec =
                            MergeFrom(FromString(Val(context_devices)[1]).spec,
                                      FromString(Val(frame[t].name)).spec)]
            /\ pc' = [pc EXCEPT ![t] = "device_store"]
            /\ UNCHANGED ret
    /\ UNCHANGED <<singletonVars, ctxFields, modeVars, zeros_cache, context_handle, context_devices, num_gpus,
                   initialize_lock, server_def, collective_ops_server_def,
                   overlay, tld, deviceVars, calls, engine, hist>>

\* The same step with the cache entry under the merged name.
DeviceStore_KeyedByNewName(t) ==
    /\ pc[t] = "device_store"
    /\ LET new_device_spec == Len(device_spec_heap) + 1
           new_device_name == SpecToString(frame[t].new_device_spec)
           cache_key == <<new_device_name, frame[t].name>>
       IN
       /\ device_spec_heap' = Append(device_spec_heap, frame[t].new_device_spec)
       /\ device_parsing_cache' =
              (cache_key :> <<new_device_name, new_device_spec>>)
                  @@ device_parsing_cache
       /\ Install(t, frame[t].name, new_device_name, new_device_spec)
    /\ Return(t, [ret[t] EXCEPT !.status = "ok"])
    /\ UNCHANGED <<singletonVars, ctxFields, modeVars, zeros_cache, context_handle, context_devices, num_gpus,
                   initialize_lock, server_def, collective_ops_server_def,
                   overlay, last_exit, frame, calls, engine, hist>>

\* Lines 595-600: the new DeviceSpec object goes into the cache under the key
\* computed at entry and is installed.
DeviceStore(t) ==
    /\ pc[t] = "device_store"
    /\ LET new_device_spec == Len(device_spec_heap) + 1
           new_device_name == SpecToString(frame[t].new_device_spec)
           cache_key == <<tld[t].device_name, frame[t].name>>
       IN
       /\ device_spec_heap' = Append(device_spec_heap, frame[t].new_device_spec)
       /\ device_parsing_cache' =
              (cache_key :> <<new_device_name, new_device_spec>>)
                  @@ device_parsing_cache
       /\ Install(t, frame[t].name, new_device_name, new_device_spec)
    /\ Return(t, [ret[t] EXCEPT !.status = "ok"])
    /\ UNCHANGED <<singletonVars, ctxFields, modeVars, zeros_cache, context_handle, context_devices, num_gpus,
                   initialize_lock, server_def, collective_ops_server_def,
                   overlay, last_exit, frame, calls, engine, hist>>

RemoveAt(seq, i) == SubSeq(seq, 1, i - 1) \o SubSeq(seq, i + 1, Len(seq))

\* The history of an exit: which scope left, and the pair it found installed.
ExitRecord(t, i, body_raised) ==
    [index |-> i, depth |-> Len(scopes[t]), body_raised |-> body_raised,
     nested |-> (last_exit[t].nested /\ i = Len(scopes[t])),
     scope |-> scopes[t][i],
     device_name |-> tld[t].device_name,
     device_spec |-> tld[t].device_spec]

\* DeviceExit without the identity test of line 603: the saved pair is
\* written back whatever is installed.
DeviceExit_Unchecked(t, i, body_raised) ==
    /\ BeginWithin(t, "device_exit", MaxDeviceCalls)
    /\ i \in 1..Len(scopes[t])
    /\ LET scope == scopes[t][i] IN
       /\ tld' = [tld EXCEPT ![t].device_name = scope.old_device_name,
                             ![t].device_spec = scope.old_device_spec]
       /\ ret' = [ret EXCEPT ![t] =
                     IF body_raised
                     THEN [NoResult EXCEPT !.op = "device_exit",
                                           !.status = "raise",
                                           !.error = "BodyError"]
                     ELSE Result("device_exit")]
    /\ last_exit' = [last_exit EXCEPT ![t] = ExitRecord(t, i, body_raised)]
    /\ scopes' = [scopes EXCEPT ![t] = RemoveAt(@, i)]
    /\ frame' = [frame EXCEPT ![t] = [EmptyFrame EXCEPT !.caller = "device_exit"]]
    /\ UNCHANGED <<singletonVars, ctxFields, modeVars, zeros_cache, context_handle, context_devices, num_gpus,
                   initialize_lock, server_def, collective_ops_server_def,
                   overlay, device_parsing_cache, device_spec_heap, pc, engine,
                   hist>>

\* DeviceExit that restores nothing when the body raised.
DeviceExit_NoFinally(t, i, body_raised) ==
    /\ BeginWithin(t, "device_exit", MaxDeviceCalls)
    /\ i \in 1..Len(scopes[t])
    /\ LET scope == scopes[t][i] IN
       IF body_raised
       THEN /\ ret' = [ret EXCEPT ![t] =
                          [NoResult EXCEPT !.op = "device_exit",
                                           !.status = "raise",
                                           !.error = "BodyError"]]
            /\ UNCHANGED tld
       ELSE IF tld[t].device_spec # scope.new_device_spec
       THEN /\ ret' = [ret EXCEPT ![t] =
                          [NoResult EXCEPT !.op = "device_exit",
                                           !.status = "raise",
                                           !.error = "RuntimeError"]]
            /\ UNCHANGED tld
       ELSE /\ tld' = [tld EXCEPT ![t].device_name = scope.old_device_name,
                                  ![t].device_spec = scope.old_device_spec]
            /\ ret' = [ret EXCEPT ![t] = Result("device_exit")]
    /\ last_exit' = [last_exit EXCEPT ![t] = ExitRecord(t, i, body_raised)]
    /\ scopes' = [scopes EXCEPT ![t] = RemoveAt(@, i)]
    /\ frame' = [frame EXCEPT ![t] = [EmptyFrame EXCEPT !.caller = "device_exit"]]
    /\ UNCHANGED <<singletonVars, ctxFields, modeVars, zeros_cache, context_handle, context_devices, num_gpus,
                   initialize_lock, server_def, collective_ops_server_def,
                   overlay, device_parsing_cache, device_spec_heap, pc, engine,
                   hist>>

\* Lines 602-606: the scope entered i-th among the active ones of t exits,
\* its body having returned or raised.
DeviceExit(t, i, body_raised) ==
    /\ BeginWithin(t, "device_exit", MaxDeviceCalls)
    /\ i \in 1..Len(scopes[t])
    /\ LET scope == scopes[t][i] IN
       /\ IF tld[t].device_spec # scope.new_device_spec
          THEN /\ ret' = [ret EXCEPT ![t] =
                             [NoResult EXCEPT !.op = "device_exit",
                                              !.status = "raise",
                                              !.error = "RuntimeError"]]
               /\ UNCHANGED tld
          ELSE /\ tld' = [tld EXCEPT ![t].device_name = scope.old_device_name,
                                     ![t].device_spec = scope.old_device_spec]
               /\ ret' = [ret EXCEPT ![t] =
                             IF body_raised
                             THEN [NoResult EXCEPT !.op = "device_exit",
                                                   !.status = "raise",
                                                   !.error = "BodyError"]
                             ELSE Result("device_exit")]
       /\ last_exit' = [last_exit EXCEPT ![t] = ExitRecord(t, i, body_raised)]
    /\ scopes' = [scopes EXCEPT ![t] = RemoveAt(@, i)]
    /\ frame' = [frame EXCEPT ![t] = [EmptyFrame EXCEPT !.caller = "device_exit"]]
    /\ UNCHANGED <<singletonVars, ctxFields, modeVars, zeros_cache, context_handle, context_devices, num_gpus,
                   initialize_lock, server_def, collective_ops_server_def,
                   overlay, device_parsing_cache, device_spec_heap, pc, engine,
                   hist>>

\* -------------------------------------------------------------- mode scopes
Modes == {GRAPH_MODE, EAGER_MODE}

\* Context._mode with the mode and the eager flag kept in one place for all
\* threads instead of thread-local storage.
ModeEnter_SharedMode(t, mode) ==
    /\ BeginWithin(t, "_mode", MaxModeCalls)
    /\ Len(mode_scopes[t]) < MaxDepth
    /\ LET old_mode == tld[t].mode
           old_is_eager == tld[t].is_eager
       IN
       /\ tld' = [u \in Threads |->
                     [tld[u] EXCEPT !.mode = mode,
                                    !.is_eager = (mode = EAGER_MODE)]]
       /\ context_switches' =
              IF mode = EAGER_MODE
              THEN [context_switches EXCEPT ![t] = Append(@, EagerSwitch)]
              ELSE context_switches
       /\ mode_scopes' = [mode_scopes EXCEPT ![t] =
                             Append(@, ModeRecord(mode, old_mode, old_is_eager))]
    /\ Return(t, Result("_mode"))
    /\ frame' = [frame EXCEPT ![t] = [EmptyFrame EXCEPT !.caller = "_mode"]]
    /\ UNCHANGED <<singletonVars, ctxFields, context_handle, context_devices, num_gpus,
                   initialize_lock, server_def, collective_ops_server_def,
                   overlay, deviceVars, last_mode_exit, zeros_cache, engine,
                   hist>>

\* Context._mode(mode), lines 461-471: up to the yield.
ModeEnter(t, mode) ==
    /\ BeginWithin(t, "_mode", MaxModeCalls)
    /\ Len(mode_scopes[t]) < MaxDepth
    /\ LET old_mode == tld[t].mode
           old_is_eager == tld[t].is_eager
       IN
       /\ tld' = [tld EXCEPT ![t].mode = mode,
                             ![t].is_eager = (mode = EAGER_MODE)]
       /\ context_switches' =
              IF mode = EAGER_MODE
              THEN [context_switches EXCEPT ![t] = Append(@, EagerSwitch)]
              ELSE context_switches
       /\ mode_scopes' = [mode_scopes EXCEPT ![t] =
                             Append(@, ModeRecord(mode, old_mode, old_is_eager))]
    /\ Return(t, Result("_mode"))
    /\ frame' = [frame EXCEPT ![t] = [EmptyFrame EXCEPT !.caller = "_mode"]]
    /\ UNCHANGED <<singletonVars, ctxFields, context_handle, context_devices, num_gpus,
                   initialize_lock, server_def, collective_ops_server_def,
                   overlay, deviceVars, last_mode_exit, zeros_cache, engine,
                   hist>>

\* The history of an exit: which scope left, through which kind of body.
ModeExitRecord(t, i, body_raised) ==
    [last_mode_exit[t] EXCEPT
        !.index = i, !.depth = Len(mode_scopes[t]),
        !.body_raised = body_raised,
        !.nested = (@ /\ i = Len(mode_scopes[t])),
        !.scope = mode_scopes[t][i]]

\* What a mode scope exit returns or raises once its finally block is done.
ModeExitResult(body_raised) ==
    IF body_raised
    THEN [NoResult EXCEPT !.op = "_mode_exit", !.status = "raise",
                          !.error = "BodyError"]
    ELSE Result("_mode_exit")

\* ModeExit popping the stack whatever mode the scope entered.
ModeExit_AlwaysPops(t, i, body_raised) ==
    /\ BeginWithin(t, "_mode_exit", MaxModeCalls)
    /\ i \in 1..Len(mode_scopes[t])
    /\ LET scope == mode_scopes[t][i] IN
       /\ tld' = [tld EXCEPT ![t].is_eager = scope.old_is_eager,
                             ![t].mode = scope.old_mode]
       /\ IF context_switches[t] = <<>>
          THEN /\ Fail(t, "_mode_exit", "IndexError")
               /\ UNCHANGED context_switches
          ELSE /\ context_switches' = [context_switches EXCEPT ![t] =
                                          SubSeq(@, 1, Len(@) - 1)]
               /\ Return(t, ModeExitResult(body_raised))
    /\ last_mode_exit' = [last_mode_exit EXCEPT ![t] =
                             ModeExitRecord(t, i, body_raised)]
    /\ mode_scopes' = [mode_scopes EXCEPT ![t] = RemoveAt(@, i)]
    /\ frame' = [frame EXCEPT ![t] = [EmptyFrame EXCEPT !.caller = "_mode_exit"]]
    /\ UNCHANGED <<singletonVars, ctxFields, context_handle, context_devices, num_gpus,
                   initialize_lock, server_def, collective_ops_server_def,
                   overlay, deviceVars, zeros_cache, engine, hist>>

\* ModeExit restoring nothing when the body raised.
ModeExit_NoFinally(t, i, body_raised) ==
    /\ BeginWithin(t, "_mode_exit", MaxModeCalls)
    /\ i \in 1..Len(mode_scopes[t])
    /\ LET scope == mode_scopes[t][i] IN
       IF body_raised
       THEN /\ Return(t, ModeExitResult(body_raised))
            /\ UNCHANGED <<tld, context_switches>>
       ELSE /\ tld' = [tld EXCEPT ![t].is_eager = scope.old_is_eager,
                                  ![t].mode = scope.old_mode]
            /\ IF scope.mode # EAGER_MODE
               THEN /\ Return(t, ModeExitResult(body_raised))
                    /\ UNCHANGED context_switches
               ELSE IF context_switches[t] = <<>>
               THEN /\ Fail(t, "_mode_exit", "IndexError")
                    /\ UNCHANGED context_switches
               ELSE /\ context_switches' = [context_switches EXCEPT ![t] =
                                               SubSeq(@, 1, Len(@) - 1)]
                    /\ Return(t, ModeExitResult(body_raised))
    /\ last_mode_exit' = [last_mode_exit EXCEPT ![t] =
                             ModeExitRecord(t, i, body_raised)]
    /\ mode_scopes' = [mode_scopes EXCEPT ![t] = RemoveAt(@, i)]
    /\ frame' = [frame EXCEPT ![t] = [EmptyFrame EXCEPT !.caller = "_mode_exit"]]
    /\ UNCHANGED <<singletonVars, ctxFields, context_handle, context_devices, num_gpus,
                   initialize_lock, server_def, collective_ops_server_def,
                   overlay, deviceVars, zeros_cache, engine, hist>>

\* Context._mode, lines 472-477: the finally block of the scope entered i-th
\* among the active ones of t, its body having returned or raised. The
\* list.pop() of line 213 raises IndexError on an empty stack.
ModeExit(t, i, body_raised) ==
    /\ BeginWithin(t, "_mode_exit", MaxModeCalls)
    /\ i \in 1..Len(mode_scopes[t])
    /\ LET scope == mode_scopes[t][i] IN
       /\ tld' = [tld EXCEPT ![t].is_eager = scope.old_is_eager,
                             ![t].mode = scope.old_mode]
       /\ IF scope.mode # EAGER_MODE
          THEN /\ Return(t, ModeExitResult(body_raised))
               /\ UNCHANGED context_switches
          ELSE IF context_switches[t] = <<>>
          THEN /\ Fail(t, "_mode_exit", "IndexError")
               /\ UNCHANGED context_switches
          ELSE /\ context_switches' = [context_switches EXCEPT ![t] =
                                          SubSeq(@, 1, Len(@) - 1)]
               /\ Return(t, ModeExitResult(body_raised))
    /\ last_mode_exit' = [last_mode_exit EXCEPT ![t] =
                             ModeExitRecord(t, i, body_raised)]
    /\ mode_scopes' = [mode_scopes EXCEPT ![t] = RemoveAt(@, i)]
    /\ frame' = [frame EXCEPT ![t] = [EmptyFrame EXCEPT !.caller = "_mode_exit"]]
    /\ UNCHANGED <<singletonVars, ctxFields, context_handle, context_devices, num_gpus,
                   initialize_lock, server_def, collective_ops_server_def,
                   overlay, deviceVars, zeros_cache, engine, hist>>

\* ------------------------------------------------------------ tensor caches
CacheKeys == 1..(MaxItems + 1)
\* Tensors by their number of elements: the largest that is admitted and the
\* smallest that is not.
CacheValues == {[num_elements |-> n] : n \in {MaxTensorSize, MaxTensorSize + 1}}

\* The keys of a dictionary, in iteration order.
Keys(data) == [i \in 1..Len(data) |-> data[i][1]]

HasKey(data, key) == \E i \in 1..Len(data) : data[i][1] = key

\* data[key] = value: a new key goes last, a key the dictionary has keeps
\* its place.
SetItem(data, key, value) ==
    IF HasKey(data, key)
    THEN [i \in 1..Len(data) |->
             IF data[i][1] = key THEN <<key, value>> ELSE data[i]]
    ELSE Append(data, <<key, value>>)

\* put that evicts the newest item of an overfull dictionary.
TensorCachePut_EvictsNewest(cache, key, value) ==
    IF value.num_elements > MaxTensorSize
    THEN [cache |-> cache, error |-> ""]
    ELSE LET data == SetItem(cache.data, key, value)
             admitted == [cache EXCEPT !.data = data, !.puts = Append(@, key)]
         IN
         IF Len(data) > MaxItems
         THEN IF cache.ordered
              THEN [cache |-> [admitted EXCEPT !.data = SubSeq(data, 1, Len(data) - 1)],
                    error |-> ""]
              ELSE [cache |-> admitted, error |-> "TypeError"]
         ELSE [cache |-> admitted, error |-> ""]

\* put that admits a value of any size.
TensorCachePut_NoThreshold(cache, key, value) ==
    LET data == SetItem(cache.data, key, value)
        admitted == [cache EXCEPT !.data = data, !.puts = Append(@, key)]
    IN
    IF Len(data) > MaxItems
    THEN IF cache.ordered
         THEN [cache |-> [admitted EXCEPT !.data = Tail(data)], error |-> ""]
         ELSE [cache |-> admitted, error |-> "TypeError"]
    ELSE [cache |-> admitted, error |-> ""]

\* _EagerTensorCache.put, lines 69-76: the cache afterwards and the error
\* raised, if any. popitem(last=False) takes the first item of an
\* OrderedDict; a plain dict takes no such argument and raises TypeError.
TensorCachePut(cache, key, value) ==
    IF value.num_elements > MaxTensorSize
    THEN [cache |-> cache, error |-> ""]
    ELSE LET data == SetItem(cache.data, key, value)
             admitted == [cache EXCEPT !.data = data, !.puts = Append(@, key)]
         IN
         IF Len(data) > MaxItems
         THEN IF cache.ordered
              THEN [cache |-> [admitted EXCEPT !.data = Tail(data)], error |-> ""]
              ELSE [cache |-> admitted, error |-> "TypeError"]
         ELSE [cache |-> admitted, error |-> ""]

\* _EagerTensorCache.get, lines 78-79
TensorCacheGet(cache, key) ==
    IF HasKey(cache.data, key)
    THEN Some((CHOOSE item \in {cache.data[i] : i \in 1..Len(cache.data)} :
                  item[1] = key)[2])
    ELSE None

\* _EagerTensorCache.flush, lines 81-82: the OrderedDict is replaced by {}.
TensorCacheFlush(cache) ==
    [data |-> <<>>, ordered |-> FALSE, puts |-> <<>>, flushed |-> TRUE]

\* zeros_cache().put(key, value) by thread t
Put(t, key, value) ==
    /\ BeginWithin(t, "put", MaxCacheCalls)
    /\ LET r == TensorCachePut(zeros_cache[t], key, value) IN
       /\ zeros_cache' = [zeros_cache EXCEPT ![t] = r.cache]
       /\ IF r.error # ""
          THEN Fail(t, "put", r.error)
          ELSE Return(t, Result("put"))
    /\ frame' = [frame EXCEPT ![t] =
                    [EmptyFrame EXCEPT !.caller = "put", !.key = key,
                                       !.value = value]]
    /\ UNCHANGED <<singletonVars, ctxFields, modeVars, context_handle, context_devices,
                   num_gpus, initialize_lock, server_def,
                   collective_ops_server_def, overlay, tld, deviceVars, engine,
                   hist>>

\* get that makes the item it finds the newest one, as a cache ordered by
\* recency of use does.
Get_MovesToEnd(t, key) ==
    /\ BeginWithin(t, "get", MaxCacheCalls)
    /\ Return(t, [Result("get") EXCEPT !.value = TensorCacheGet(zeros_cache[t], key)])
    /\ zeros_cache' =
           [zeros_cache EXCEPT ![t].data =
               IF HasKey(@, key)
               THEN SelectSeq(@, LAMBDA item : item[1] # key)
                    \o SelectSeq(@, LAMBDA item : item[1] = key)
               ELSE @]
    /\ frame' = [frame EXCEPT ![t] =
                    [EmptyFrame EXCEPT !.caller = "get", !.key = key]]
    /\ UNCHANGED <<singletonVars, ctxFields, modeVars, context_handle,
                   context_devices, num_gpus, initialize_lock, server_def,
                   collective_ops_server_def, overlay, tld, deviceVars, engine,
                   hist>>

\* zeros_cache().get(key) by thread t
Get(t, key) ==
    /\ BeginWithin(t, "get", MaxCacheCalls)
    /\ Return(t, [Result("get") EXCEPT !.value = TensorCacheGet(zeros_cache[t], key)])
    /\ frame' = [frame EXCEPT ![t] =
                    [EmptyFrame EXCEPT !.caller = "get", !.key = key]]
    /\ UNCHANGED <<singletonVars, ctxFields, modeVars, zeros_cache, context_handle,
                   context_devices, num_gpus, initialize_lock, server_def,
                   collective_ops_server_def, overlay, tld, deviceVars, engine,
                   hist>>

\* Context._clear_caches, lines 368-371, by thread t: its caches are flushed
\* (ones_rank_cache is a cache of the same class and goes the same way).
ClearCaches(t) ==
    /\ BeginWithin(t, "_clear_caches", MaxCacheCalls)
    /\ zeros_cache' = [zeros_cache EXCEPT ![t] = TensorCacheFlush(@)]
    /\ Return(t, Result("_clear_caches"))
    /\ frame' = [frame EXCEPT ![t] = [EmptyFrame EXCEPT !.caller = "_clear_caches"]]
    /\ UNCHANGED <<singletonVars, ctxFields, modeVars, context_handle, context_devices,
                   num_gpus, initialize_lock, server_def,
                   collective_ops_server_def, overlay, tld, deviceVars, engine,
                   hist>>

\* ------------------------------------------------------ startup-only knobs
\* Values a caller may give the knobs (memory fractions in tenths).
FractionValues == {5}
ThreadCounts == {2}

\* ConfigProto.SerializeToString(): the fields that differ from their
\* protobuf defaults, each with its value.
SerializeToString(config) ==
    {<<f, config[f]>> :
        f \in {g \in DOMAIN config \ {"rewrite_options"} :
                  config[g] # DefaultConfigProto[g]}}
    \cup {<<o, config.rewrite_options[o]>> :
             o \in {q \in RewriterOptions :
                       config.rewrite_options[q] # DefaultConfigProto.rewrite_options[q]}}

\* FunctionCallOptions(config_proto=config), lines 91-128, for a ConfigProto.
FunctionCallOptions(config) ==
    [executor_type |-> None, config_proto_serialized |-> SerializeToString(config)]

\* Context.function_call_options that derives the options on every read.
GetFunctionCallOptions_Rebuilds(t) ==
    /\ BeginWithin(t, "function_call_options", MaxKnobCalls)
    /\ tld' = [tld EXCEPT ![t].function_call_options =
                  Some(FunctionCallOptions(
                      IF IsNone(overlay.soft_device_placement)
                      THEN [Config(t) EXCEPT !.allow_soft_placement = TRUE]
                      ELSE Config(t)))]
    /\ Return(t, [Result("function_call_options") EXCEPT
                      !.value = tld'[t].function_call_options,
                      !.built = TRUE])
    /\ frame' = [frame EXCEPT ![t] = [EmptyFrame EXCEPT !.caller = "function_call_options"]]
    /\ UNCHANGED <<singletonVars, ctxFields, modeVars, zeros_cache, context_handle, context_devices, num_gpus,
                   initialize_lock, server_def, collective_ops_server_def,
                   overlay, deviceVars, engine, hist>>

\* Context.function_call_options (getter), lines 713-729.
GetFunctionCallOptions(t) ==
    /\ BeginWithin(t, "function_call_options", MaxKnobCalls)
    /\ tld' =
           IF IsNone(tld[t].function_call_options)
           THEN [tld EXCEPT ![t].function_call_options =
                    Some(FunctionCallOptions(
                        IF IsNone(overlay.soft_device_placement)
                        THEN [Config(t) EXCEPT !.allow_soft_placement = TRUE]
                        ELSE Config(t)))]
           ELSE tld
    /\ Return(t, [Result("function_call_options") EXCEPT
                      !.value = tld'[t].function_call_options,
                      !.built = IsNone(tld[t].function_call_options)])
    /\ frame' = [frame EXCEPT ![t] = [EmptyFrame EXCEPT !.caller = "function_call_options"]]
    /\ UNCHANGED <<singletonVars, ctxFields, modeVars, zeros_cache, context_handle, context_devices, num_gpus,
                   initialize_lock, server_def, collective_ops_server_def,
                   overlay, deviceVars, engine, hist>>

\* The shape the five startup-only setters share: refuse once the handle
\* exists, store the value otherwise.
SetAtStartup(t, knob, value, clears_options) ==
    /\ BeginWithin(t, knob, MaxKnobCalls)
    /\ frame' = [frame EXCEPT ![t] = [EmptyFrame EXCEPT !.caller = knob]]
    /\ IF ~IsNone(context_handle)
       THEN /\ Fail(t, knob, "RuntimeError")
            /\ UNCHANGED <<overlay, tld>>
       ELSE /\ overlay' = [overlay EXCEPT ![knob] = Some(value)]
            /\ tld' = IF clears_options
                      THEN [tld EXCEPT ![t].function_call_options = None]
                      ELSE tld
            /\ Return(t, [Result(knob) EXCEPT !.dropped = tld'[t] # tld[t]])
    /\ UNCHANGED <<singletonVars, ctxFields, modeVars, zeros_cache, context_handle, context_devices, num_gpus,
                   initialize_lock, server_def, collective_ops_server_def,
                   deviceVars, engine, hist>>

\* A setter that stores the value whether or not the handle exists.
SetAnyTime(t, knob, value, clears_options) ==
    /\ BeginWithin(t, knob, MaxKnobCalls)
    /\ frame' = [frame EXCEPT ![t] = [EmptyFrame EXCEPT !.caller = knob]]
    /\ overlay' = [overlay EXCEPT ![knob] = Some(value)]
    /\ tld' = IF clears_options
              THEN [tld EXCEPT ![t].function_call_options = None]
              ELSE tld
    /\ Return(t, [Result(knob) EXCEPT !.dropped = tld'[t] # tld[t]])
    /\ UNCHANGED <<singletonVars, ctxFields, modeVars, zeros_cache, context_handle, context_devices, num_gpus,
                   initialize_lock, server_def, collective_ops_server_def,
                   deviceVars, engine, hist>>

\* gpu_per_process_memory_fraction.setter, lines 816-822
SetGpuPerProcessMemoryFraction(t, fraction) ==
    SetAtStartup(t, "gpu_per_process_memory_fraction", fraction, FALSE)

\* gpu_per_process_memory_growth.setter, lines 828-834
SetGpuPerProcessMemoryGrowth(t, enabled) ==
    SetAtStartup(t, "gpu_per_process_memory_growth", enabled, FALSE)

SetIntraOpParallelismThreads_Unchecked(t, num_threads) ==
    SetAnyTime(t, "intra_op_parallelism_threads", num_threads, FALSE)

\* intra_op_parallelism_threads.setter, lines 899-905
SetIntraOpParallelismThreads(t, num_threads) ==
    SetAtStartup(t, "intra_op_parallelism_threads", num_threads, FALSE)

\* inter_op_parallelism_threads.setter, lines 911-917
SetInterOpParallelismThreads(t, num_threads) ==
    SetAtStartup(t, "inter_op_parallelism_threads", num_threads, FALSE)

\* log_device_placement.setter, lines 933-940: it also drops the calling
\* thread's cached function call options.
SetLogDevicePlacement(t, enabled) ==
    SetAtStartup(t, "log_device_placement", enabled, TRUE)

\* optimizer_jit.setter that leaves the cached function call options alone.
SetOptimizerJit_KeepsOptions(t, enabled) ==
    SetAnyTime(t, "optimizer_jit", enabled, FALSE)

\* optimizer_jit.setter, lines 842-846
SetOptimizerJit(t, enabled) ==
    SetAnyTime(t, "optimizer_jit", enabled, TRUE)

\* soft_device_placement.setter, lines 922-927
SetSoftDevicePlacement(t, enabled) ==
    SetAnyTime(t, "soft_device_placement", enabled, TRUE)

\* Dictionaries a caller may hand to set_optimizer_experimental_options.
OptionDicts ==
    {"layout_optimizer" :> TRUE, "layout_optimizer" :> FALSE,
     "disable_model_pruning" :> TRUE, "min_graph_nodes" :> 3,
     ("constant_folding" :> FALSE) @@ ("disable_meta_optimizer" :> TRUE)}

\* Context.set_optimizer_experimental_options, lines 885-893
SetOptimizerExperimentalOptions(t, options) ==
    /\ BeginWithin(t, "set_optimizer_experimental_options", MaxKnobCalls)
    /\ frame' = [frame EXCEPT ![t] =
                    [EmptyFrame EXCEPT !.caller = "set_optimizer_experimental_options"]]
    /\ overlay' = [overlay EXCEPT !.optimizer_experimental_options =
                      [o \in RewriterOptions |->
                          IF o \in DOMAIN options THEN Some(options[o]) ELSE @[o]]]
    /\ tld' = [tld EXCEPT ![t].function_call_options = None]
    /\ Return(t, [Result("set_optimizer_experimental_options") EXCEPT
                      !.dropped = tld'[t] # tld[t]])
    /\ UNCHANGED <<singletonVars, ctxFields, modeVars, zeros_cache, context_handle,
                   context_devices, num_gpus, initialize_lock, server_def,
                   collective_ops_server_def, deviceVars, engine, hist>>

\* What a caller may hand to the execution mode setter; 2 is no mode.
ExecutionModeArgs == {None, Some(SYNC), Some(ASYNC), Some(2)}

\* Context.execution_mode (setter), lines 626-642.
SetExecutionMode(t, mode) ==
    /\ BeginWithin(t, "execution_mode", MaxKnobCalls)
    /\ frame' = [frame EXCEPT ![t] = [EmptyFrame EXCEPT !.caller = "execution_mode"]]
    /\ IF mode \notin {None, Some(SYNC), Some(ASYNC)}
       THEN /\ Fail(t, "execution_mode", "ValueError")
            /\ UNCHANGED <<c_execution_mode, tld, engine, hist>>
       ELSE LET m == IF IsNone(mode) THEN SYNC ELSE Val(mode)
                differs == tld[t].execution_mode # m
            IN  /\ tld' = [tld EXCEPT ![t].execution_mode = m,
                                      ![t].function_call_options = None]
                /\ c_execution_mode' =
                       IF differs /\ IsNone(context_handle) THEN m
                       ELSE c_execution_mode
                /\ engine' =
                       IF differs /\ ~IsNone(context_handle)
                       THEN [engine EXCEPT !.asyncForThread[t] = Some(m = ASYNC)]
                       ELSE engine
                /\ hist' = [hist EXCEPT
                               !.mode_set = Some([thread |-> t, mode |-> m]),
                               !.mode_staged = IF IsNone(context_handle)
                                               THEN Some(m) ELSE @]
                /\ Return(t, [Result("execution_mode") EXCEPT
                                  !.value = Some(m),
                                  !.dropped = tld'[t].function_call_options
                                                  # tld[t].function_call_options])
    /\ UNCHANGED <<singletonVars, base_config, device_policy, modeVars, zeros_cache,
                   context_handle, context_devices, num_gpus, initialize_lock,
                   server_def, collective_ops_server_def, overlay, deviceVars>>

\* Context.execution_mode (getter), lines 612-624.
GetExecutionMode(t) ==
    /\ BeginWithin(t, "get_execution_mode", MaxKnobCalls)
    /\ frame' = [frame EXCEPT ![t] = [EmptyFrame EXCEPT !.caller = "get_execution_mode"]]
    /\ Return(t, [Result("get_execution_mode") EXCEPT
                      !.value = Some(IF IsNone(context_handle)
                                     THEN c_execution_mode
                                     ELSE tld[t].execution_mode)])
    /\ UNCHANGED <<singletonVars, ctxFields, modeVars, zeros_cache, context_handle,
                   context_devices, num_gpus, initialize_lock, server_def,
                   collective_ops_server_def, overlay, tld, deviceVars, engine,
                   hist>>

\* What a caller may hand to the device policy setter.
DevicePolicyArgs == {None, Some("WARN"), Some("EXPLICIT")}

\* Context.device_policy (setter), lines 950-961.
SetDevicePolicy(t, policy) ==
    /\ BeginWithin(t, "device_policy", MaxKnobCalls)
    /\ frame' = [frame EXCEPT ![t] = [EmptyFrame EXCEPT !.caller = "device_policy"]]
    /\ LET p == IF IsNone(policy) THEN "SILENT" ELSE Val(policy)
           differs == device_policy # p
       IN  /\ device_policy' = p
           /\ engine' =
                  IF differs /\ ~IsNone(context_handle)
                  THEN [engine EXCEPT !.policyForThread[t] = Some(p)]
                  ELSE engine
           /\ hist' = [hist EXCEPT !.policy_staged =
                                       IF IsNone(context_handle) THEN Some(p) ELSE @]
           /\ Return(t, [Result("device_policy") EXCEPT !.value = Some(p)])
    /\ UNCHANGED <<singletonVars, base_config, c_execution_mode, modeVars, zeros_cache,
                   context_handle, context_devices, num_gpus, initialize_lock,
                   server_def, collective_ops_server_def, overlay, tld,
                   deviceVars>>

\* The execution mode and the placement policy the engine uses for the calls
\* of thread t on the handle it has opened: what the handle was opened with,
\* unless TFE_ContextSetAsyncForThread or
\* TFE_ContextSetThreadLocalDevicePlacementPolicy was called on the thread.
EngineMode(t) ==
    LET async == IF IsNone(engine.asyncForThread[t]) THEN Val(engine.opened).async
                 ELSE Val(engine.asyncForThread[t])
    IN  IF async THEN ASYNC ELSE SYNC

EnginePolicy(t) ==
    IF IsNone(engine.policyForThread[t]) THEN Val(engine.opened).device_policy
    ELSE Val(engine.policyForThread[t])

\* Context.config that writes the deltas into the base configuration
\* instead of a copy.
GetConfig_InPlace(t) ==
    /\ BeginWithin(t, "config", MaxKnobCalls)
    /\ base_config' = Some(Config(t))
    /\ Return(t, [Result("config") EXCEPT !.value = Some(Config(t))])
    /\ frame' = [frame EXCEPT ![t] = [EmptyFrame EXCEPT !.caller = "config"]]
    /\ UNCHANGED <<singletonVars, device_policy, c_execution_mode, modeVars, zeros_cache,
                   context_handle, context_devices, num_gpus, initialize_lock,
                   server_def, collective_ops_server_def, overlay, tld,
                   deviceVars, engine, hist>>

\* Context.config (the property), lines 644-710, read by thread t.
GetConfig(t) ==
    /\ BeginWithin(t, "config", MaxKnobCalls)
    /\ Return(t, [Result("config") EXCEPT !.value = Some(Config(t))])
    /\ frame' = [frame EXCEPT ![t] = [EmptyFrame EXCEPT !.caller = "config"]]
    /\ UNCHANGED <<singletonVars, ctxFields, modeVars, zeros_cache, context_handle,
                   context_devices, num_gpus, initialize_lock, server_def,
                   collective_ops_server_def, overlay, tld, deviceVars, engine,
                   hist>>

\* The field of Context.config each value set after construction is copied to.
ConfigField(knob) ==
    CASE knob = "gpu_per_process_memory_fraction" -> "per_process_gpu_memory_fraction"
      [] knob = "gpu_per_process_memory_growth" -> "allow_growth"
      [] knob = "optimizer_jit" -> "global_jit_level"
      [] knob = "soft_device_placement" -> "allow_soft_placement"
      [] OTHER -> knob

\* ------------------------------------------------------------ specification
\* The steps of _initialize_handle_and_devices and _initialize_devices.
InitStep(t) ==
    \/ InitLock(t)
    \/ InitConfig(t)
    \/ InitOpen(t)
    \/ InitServerDef(t)
    \/ DevicesReset(t)
    \/ DevicesList(t)
    \/ DevicesLoop(t)

ServerDefArgs == {None} \cup {Some(sd) : sd \in ServerDefs}

\* Threads realizing and using the handle, staging server definitions.
Next ==
    \E t \in Threads :
        \/ InitStep(t)
        \/ AfterInit(t)
        \/ Handle(t)
        \/ Devices(t)
        \/ NumGpus(t)
        \/ \E sd \in ServerDefArgs : SetServerDef(t, sd)
        \/ \E sd \in ServerDefArgs : EnableCollectiveOps(t, sd)

Spec == Init /\ [][Next]_vars

\* Threads entering and leaving device scopes, in any order.
NextDevice ==
    \E t \in Threads :
        \/ InitStep(t)
        \/ \E name \in RequestedNames : DeviceEnter(t, name)
        \/ DeviceFirst(t)
        \/ DeviceStore(t)
        \/ \E i \in 1..MaxDepth, body_raised \in BOOLEAN :
               DeviceExit(t, i, body_raised)

SpecDevice == Init /\ [][NextDevice]_vars

\* Threads setting the startup-only knobs before and after the handle is
\* realized, and reading the function call options.
NextKnobs ==
    \E t \in Threads :
        \/ InitStep(t)
        \/ AfterInit(t)
        \/ Handle(t)
        \/ GetFunctionCallOptions(t)
        \/ \E fraction \in FractionValues : SetGpuPerProcessMemoryFraction(t, fraction)
        \/ \E enabled \in BOOLEAN : SetGpuPerProcessMemoryGrowth(t, enabled)
        \/ \E num_threads \in ThreadCounts : SetIntraOpParallelismThreads(t, num_threads)
        \/ \E num_threads \in ThreadCounts : SetInterOpParallelismThreads(t, num_threads)
        \/ \E enabled \in BOOLEAN : SetLogDevicePlacement(t, enabled)

\* Context(config) with a base configuration, on an engine that does not fail.
InitKnobs ==
    /\ InitAny
    /\ base_config = Some(SampleConfig)
    /\ server_def = None
    /\ engine = ReliableEngine
    /\ \A t \in Threads : tld[t].mode = EAGER_MODE

SpecKnobs == InitKnobs /\ [][NextKnobs]_vars

\* Threads entering device scopes while the server definition is set, before
\* or after the handle is realized.
NextCache ==
    \E t \in Threads :
        \/ InitStep(t)
        \/ \E name \in RequestedNames : DeviceEnter(t, name)
        \/ DeviceFirst(t)
        \/ DeviceStore(t)
        \/ \E sd \in ServerDefArgs : SetServerDef(t, sd)

SpecCache == Init /\ [][NextCache]_vars

\* Context.scope_name (setter), lines 500-503.
SetScopeName(t, s) ==
    /\ BeginWithin(t, "scope_name", MaxModeCalls)
    /\ tld' = [tld EXCEPT ![t].scope_name = s]
    /\ Return(t, Result("scope_name"))
    /\ frame' = [frame EXCEPT ![t] = [EmptyFrame EXCEPT !.caller = "scope_name"]]
    /\ UNCHANGED <<singletonVars, ctxFields, modeVars, zeros_cache, context_handle,
                   context_devices, num_gpus, initialize_lock, server_def,
                   collective_ops_server_def, overlay, deviceVars, engine, hist>>

\* Names a naming scope sets on entry and puts back on exit.
ScopeNameValues == {"", "outer/"}

\* One step of thread t on its scoped state: a mode scope, a device scope
\* (with the lazy initialization the first one needs), the naming scope or
\* its tensor cache.
ScopedStep(t) ==
    \/ \E mode \in Modes : ModeEnter(t, mode)
    \/ \E i \in 1..MaxDepth : ModeExit(t, i, FALSE)
    \/ InitStep(t)
    \/ DeviceEnter(t, Some(<< <<"gpu", "0">> >>))
    \/ DeviceFirst(t)
    \/ DeviceStore(t)
    \/ \E i \in 1..MaxDepth : DeviceExit(t, i, FALSE)
    \/ \E s \in ScopeNameValues : SetScopeName(t, s)
    \/ Put(t, 1, [num_elements |-> MaxTensorSize])
    \/ Get(t, 1)
    \/ ClearCaches(t)

\* The threads that open scopes; any further thread only holds state the
\* others must leave alone.
ScopingThreads == {1, 2}

NextIsolation == \E t \in ScopingThreads : ScopedStep(t)

SpecIsolation == InitKnobs /\ [][NextIsolation]_vars

\* ------------------------------------------------- the process-wide Context
\* What a call of context() leaves unchanged: the Context objects themselves.
ContextUntouched ==
    UNCHANGED <<ctxFields, modeVars, zeros_cache, context_handle,
                context_devices, num_gpus, initialize_lock, server_def,
                collective_ops_server_def, overlay, tld, deviceVars, engine,
                hist>>

\* context(), line 1034: the read of _context outside the lock.
ContextCheck(t) ==
    /\ BeginWithin(t, "context", MaxModeCalls)
    /\ frame' = [frame EXCEPT ![t] = [EmptyFrame EXCEPT !.caller = "context"]]
    /\ Goto(t, "context",
            IF IsNone(_context) THEN "context_lock" ELSE "context_return")
    /\ UNCHANGED singletonVars
    /\ ContextUntouched

\* _initialize_context(), line 1027: `with _context_lock` is entered.
ContextAcquire(t) ==
    /\ pc[t] = "context_lock"
    /\ IsNone(_context_lock)
    /\ _context_lock' = Some(t)
    /\ pc' = [pc EXCEPT ![t] = "context_create"]
    /\ UNCHANGED <<_context, contexts, frame, ret, calls>>
    /\ ContextUntouched

\* _initialize_context() that makes a Context without looking at _context
\* again under the lock.
ContextCreate_Unchecked(t) ==
    /\ pc[t] = "context_create"
    /\ contexts' = contexts + 1
    /\ _context' = Some(contexts + 1)
    /\ pc' = [pc EXCEPT ![t] = "context_unlock"]
    /\ UNCHANGED <<_context_lock, frame, ret, calls>>
    /\ ContextUntouched

\* _initialize_context(), lines 1028-1029: under the lock, a Context is made
\* and published if none is published yet. A Context is named by its ordinal
\* among the ones made here.
ContextCreate(t) ==
    /\ pc[t] = "context_create"
    /\ IF IsNone(_context)
       THEN /\ contexts' = contexts + 1
            /\ _context' = Some(contexts + 1)
       ELSE UNCHANGED <<_context, contexts>>
    /\ pc' = [pc EXCEPT ![t] = "context_unlock"]
    /\ UNCHANGED <<_context_lock, frame, ret, calls>>
    /\ ContextUntouched

\* _initialize_context(): the `with` block is left.
ContextRelease(t) ==
    /\ pc[t] = "context_unlock"
    /\ _context_lock' = None
    /\ pc' = [pc EXCEPT ![t] = "context_return"]
    /\ UNCHANGED <<_context, contexts, frame, ret, calls>>
    /\ ContextUntouched

\* context(), line 1036: `return _context`.
ContextReturn(t) ==
    /\ pc[t] = "context_return"
    /\ Return(t, [Result("context") EXCEPT !.value = _context])
    /\ UNCHANGED <<singletonVars, frame, calls>>
    /\ ContextUntouched

\* context_safe(), lines 1039-1041: _context as it is, None included.
ContextSafe(t) ==
    /\ BeginWithin(t, "context_safe", MaxModeCalls)
    /\ frame' = [frame EXCEPT ![t] = [EmptyFrame EXCEPT !.caller = "context_safe"]]
    /\ Return(t, [Result("context_safe") EXCEPT !.value = _context])
    /\ UNCHANGED singletonVars
    /\ ContextUntouched

\* Threads asking for the process-wide Context, the first calls concurrent.
NextSingleton ==
    \E t \in Threads :
        \/ ContextCheck(t)
        \/ ContextAcquire(t)
        \/ ContextCreate(t)
        \/ ContextRelease(t)
        \/ ContextReturn(t)
        \/ ContextSafe(t)

SpecSingleton == InitKnobs /\ [][NextSingleton]_vars

\* The steps of a call thread t has begun and not finished: the lazy
\* initialization, the re-read its callers make afterwards, the rest of a
\* device scope entry.
Continue(t) ==
    \/ InitStep(t)
    \/ AfterInit(t)
    \/ DeviceFirst(t)
    \/ DeviceStore(t)

\* The threads that ask for the handle; any further thread stays outside.
LazyInitThreads == {1, 2}

\* Threads asking for the handle through _handle and through a first device
\* scope, on an engine that may fail, with server definitions for remote
\* execution and for collective ops staged or not.
NextLazyInit ==
    \E t \in LazyInitThreads :
        \/ Continue(t)
        \/ Handle(t)
        \/ DeviceEnter(t, Some(<< <<"gpu", "0">> >>))
        \/ EnableCollectiveOps(t, Some("worker"))

\* A thread inside a call is scheduled again and again: no call of a thread
\* that can go on waits forever.
FairLazyInit == \A t \in Threads : WF_vars(Continue(t))

SpecLazyInit == Init /\ [][NextLazyInit]_vars /\ FairLazyInit

\* Threads entering device scopes under names device() refuses and names it
\* accepts, on an engine that does not fail.
NextNames ==
    \E t \in Threads :
        \/ InitStep(t)
        \/ \E name \in ScopeNames : DeviceEnter(t, name)
        \/ DeviceFirst(t)
        \/ DeviceStore(t)

SpecNames == InitKnobs /\ [][NextNames]_vars

\* Threads entering and leaving mode scopes, in any order, in a process
\* whose default mode is either one.
NextMode ==
    \E t \in Threads :
        \/ \E mode \in Modes : ModeEnter(t, mode)
        \/ \E i \in 1..MaxDepth, body_raised \in BOOLEAN :
               ModeExit(t, i, body_raised)

InitMode ==
    /\ InitAny
    /\ base_config = None
    /\ server_def = None
    /\ engine = ReliableEngine

SpecMode == InitMode /\ [][NextMode]_vars

\* The caches are thread-local objects: the cache of one thread is followed.
CacheThreads == {1}

\* A thread putting tensors into its cache, looking them up and clearing
\* its caches.
NextTensorCache ==
    \E t \in CacheThreads :
        \/ \E key \in CacheKeys, value \in CacheValues : Put(t, key, value)
        \/ \E key \in CacheKeys : Get(t, key)
        \/ ClearCaches(t)

SpecTensorCache == InitMode /\ [][NextTensorCache]_vars

\* Tensors the cache admits that can be told apart: an empty one and one of
\* the largest size admitted.
AdmittedValues == {[num_elements |-> n] : n \in {0, MaxTensorSize}}

\* A thread putting admitted tensors under new keys and under keys its cache
\* holds, looking keys up and clearing its caches.
NextEviction ==
    \E t \in CacheThreads :
        \/ \E key \in CacheKeys, value \in AdmittedValues : Put(t, key, value)
        \/ \E key \in CacheKeys : Get(t, key)
        \/ ClearCaches(t)

SpecEviction == InitMode /\ [][NextEviction]_vars

\* The overlay is one per Context and each setter a single assignment: the
\* calls of one thread are followed.
ConfigThreads == {1}

\* A thread setting the values of the overlay, before and after the handle is
\* realized, and reading the configuration.
NextOverlay ==
    \E t \in ConfigThreads :
        \/ InitStep(t)
        \/ AfterInit(t)
        \/ Handle(t)
        \/ GetConfig(t)
        \/ \E fraction \in FractionValues : SetGpuPerProcessMemoryFraction(t, fraction)
        \/ \E enabled \in BOOLEAN : SetGpuPerProcessMemoryGrowth(t, enabled)
        \/ \E enabled \in BOOLEAN : SetOptimizerJit(t, enabled)
        \/ \E num_threads \in ThreadCounts : SetIntraOpParallelismThreads(t, num_threads)
        \/ \E num_threads \in ThreadCounts : SetInterOpParallelismThreads(t, num_threads)
        \/ \E enabled \in BOOLEAN : SetSoftDevicePlacement(t, enabled)
        \/ \E enabled \in BOOLEAN : SetLogDevicePlacement(t, enabled)
        \/ \E options \in OptionDicts : SetOptimizerExperimentalOptions(t, options)

\* Context(config) with or without a base configuration, in either default
\* mode, on an engine that does not fail.
InitOverlay ==
    /\ InitAny
    /\ server_def = None
    /\ engine = ReliableEngine

SpecOverlay == InitOverlay /\ [][NextOverlay]_vars

\* ------------------------------------------------ options under mode scopes
\* Threads open and close mode scopes, set the soft placement flag and the
\* JIT flag, and read the configuration and the function call options.
NextOptions ==
    \E t \in Threads :
        \/ \E mode \in Modes : ModeEnter(t, mode)
        \/ \E i \in 1..MaxDepth : ModeExit(t, i, FALSE)
        \/ \E enabled \in BOOLEAN : SetSoftDevicePlacement(t, enabled)
        \/ SetOptimizerJit(t, TRUE)
        \/ GetConfig(t)
        \/ GetFunctionCallOptions(t)

SpecOptions == InitOverlay /\ [][NextOptions]_vars

\* ------------------------------------- invalidation of the cached options
\* Threads set the values whose setters clear the cached function call
\* options, and read the options; the handle is not realized.
NextInvalidate ==
    \E t \in Threads :
        \/ \E enabled \in BOOLEAN : SetOptimizerJit(t, enabled)
        \/ \E enabled \in BOOLEAN : SetSoftDevicePlacement(t, enabled)
        \/ \E enabled \in BOOLEAN : SetLogDevicePlacement(t, enabled)
        \/ \E options \in OptionDicts : SetOptimizerExperimentalOptions(t, options)
        \/ GetFunctionCallOptions(t)

SpecInvalidate == InitOverlay /\ [][NextInvalidate]_vars

\* ----------------------------------- execution mode and placement policy
\* Threads set and read the execution mode and realize the handle.
NextExecution ==
    \E t \in Threads :
        \/ InitStep(t)
        \/ AfterInit(t)
        \/ Handle(t)
        \/ \E mode \in ExecutionModeArgs : SetExecutionMode(t, mode)
        \/ GetExecutionMode(t)

\* Context() or Context(execution_mode=...) on an engine that does not fail.
InitExecution ==
    /\ \E execution_mode \in {None, Some(SYNC), Some(ASYNC)} :
           InitContext(execution_mode)
    /\ base_config = None
    /\ server_def = None
    /\ engine = ReliableEngine
    /\ \A t \in Threads : tld[t].mode = EAGER_MODE

SpecExecution == InitExecution /\ [][NextExecution]_vars

\* Threads set the placement policy and realize the handle.
NextPolicy ==
    \E t \in Threads :
        \/ InitStep(t)
        \/ AfterInit(t)
        \/ Handle(t)
        \/ \E policy \in DevicePolicyArgs : SetDevicePolicy(t, policy)

SpecPolicy == InitKnobs /\ [][NextPolicy]_vars

\* ------------------------------------------------------------------ claims
\* A call of thread t that has returned normally from operation op.
Returned(t, op) == pc[t] = "idle" /\ ret[t].op = op /\ ret[t].status = "ok"

\* C1, as stated: under any interleaving of the threads that need the handle,
\* TFE_NewContext is invoked at most once in the life of the Context and every
\* caller that returns gets the same handle.
C1_OpenInvokedAtMostOnce ==
    /\ engine.newContextCalls <= 1
    /\ \A t \in Threads : Returned(t, "_handle") => ret[t].handle = context_handle

\* C1, amended: TFE_NewContext returns a handle at most once and is never
\* invoked once a handle is stored (an invocation that raised is repeated by
\* the next caller); every caller of _handle that returns gets that one handle.
C1_OneHandleOpened ==
    /\ engine.newContextCalls - engine.newContextFailures <= 1
    /\ engine.opensWithHandle = 0
    /\ IsNone(context_handle) <=>
           engine.newContextCalls = engine.newContextFailures
    /\ \A t \in Threads :
           Returned(t, "_handle") =>
               /\ ~IsNone(ret[t].handle)
               /\ ret[t].handle = context_handle

\* Two threads both found the handle absent, both went through the lazy
\* initialization and both returned a handle.
C1_Witness ==
    \E t1, t2 \in Threads :
        /\ t1 # t2
        /\ Returned(t1, "_handle") /\ ret[t1].initialized
        /\ Returned(t2, "_handle") /\ ret[t2].initialized

\* C2: a thread obtains the handle, or a device list, only after the lazy
\* initialization has applied the staged server definition and has finished
\* listing the devices.
C2_HandleVisibleAfterEnumeration ==
    \A t \in Threads :
        (Returned(t, "_handle") \/ Returned(t, "_devices")) =>
            hist.outcome = "ok"

\* C3: when listing the devices fails during the lazy initialization, the
\* Context is left without a handle.
C3_EnumerationFailureLeavesNoHandle ==
    hist.outcome = "enum_failed" => IsNone(context_handle)

\* C4: with both server definitions staged the lazy initialization fails
\* and hands neither to the engine; with at most one staged it hands exactly
\* that one to the engine, once.
C4_StagedServerDefApplied ==
    LET remote == hist.staged[1]
        collective == hist.staged[2]
    IN
    /\ engine.initServerDefCalls <= 1
    /\ engine.initCollectiveCalls <= 1
    /\ ~hist.checked =>
           engine.initServerDefCalls = 0 /\ engine.initCollectiveCalls = 0
    /\ hist.checked =>
           /\ hist.outcome = "conflict" <=> (~IsNone(remote) /\ ~IsNone(collective))
           /\ engine.initServerDefCalls =
                  IF ~IsNone(remote) /\ IsNone(collective) THEN 1 ELSE 0
           /\ engine.initCollectiveCalls =
                  IF IsNone(remote) /\ ~IsNone(collective) THEN 1 ELSE 0

\* The lazy initialization ran with both definitions staged and raised.
C4_Witness ==
    /\ hist.outcome = "conflict"
    /\ ~IsNone(server_def) /\ ~IsNone(collective_ops_server_def)
    /\ \E t \in Threads : pc[t] = "idle" /\ ret[t].error = "AssertionError"

StartupKnobs ==
    {"gpu_per_process_memory_fraction", "gpu_per_process_memory_growth",
     "intra_op_parallelism_threads", "inter_op_parallelism_threads",
     "log_device_placement"}

KnobValues(knob) ==
    CASE knob = "gpu_per_process_memory_fraction" -> FractionValues
      [] knob \in {"intra_op_parallelism_threads", "inter_op_parallelism_threads"} ->
            ThreadCounts
      [] OTHER -> BOOLEAN

SetKnob(t, knob, value) ==
    CASE knob = "gpu_per_process_memory_fraction" ->
            SetGpuPerProcessMemoryFraction(t, value)
      [] knob = "gpu_per_process_memory_growth" ->
            SetGpuPerProcessMemoryGrowth(t, value)
      [] knob = "intra_op_parallelism_threads" ->
            SetIntraOpParallelismThreads(t, value)
      [] knob = "inter_op_parallelism_threads" ->
            SetInterOpParallelismThreads(t, value)
      [] OTHER -> SetLogDevicePlacement(t, value)

\* C5: setting a startup-only knob once the handle is realized raises and
\* changes neither the stored values nor the cached function call options;
\* setting it before succeeds, and the configuration derived next holds
\* the value.
C5_StartupOnlyKnobs ==
    [][\A t \in Threads : \A knob \in StartupKnobs : \A value \in KnobValues(knob) :
          (pc[t] = "idle" /\ ret'[t].op = knob /\ SetKnob(t, knob, value)) =>
              IF ~IsNone(context_handle)
              THEN /\ ret'[t].status = "raise"
                   /\ ret'[t].error = "RuntimeError"
                   /\ overlay' = overlay
                   /\ tld' = tld
              ELSE /\ ret'[t].status = "ok"
                   /\ overlay'[knob] = Some(value)
                   /\ \A u \in Threads : (Config(u)[ConfigField(knob)])' = value]_vars

\* One thread set a knob at startup; after the handle was realized another
\* thread was refused the same knob.
C5_Witness ==
    \E t1, t2 \in Threads : \E knob \in StartupKnobs :
        /\ t1 # t2
        /\ Returned(t1, knob)
        /\ pc[t2] = "idle" /\ ret[t2].op = knob
        /\ ret[t2].error = "RuntimeError"
        /\ ~IsNone(context_handle)
        /\ ~IsNone(overlay[knob])

\* The pair a thread has installed, and the pair every thread starts with.
InstalledPair(t) == <<tld[t].device_name, tld[t].device_spec>>
InitialPair == <<EmptyName, 1>>
OldPair(scope) == <<scope.old_device_name, scope.old_device_spec>>
NewPair(scope) == <<scope.new_device_name, scope.new_device_spec>>

\* Thread t has just left a device scope.
Exited(t) == pc[t] = "idle" /\ ret[t].op = "device_exit"

\* C6: while a thread leaves its device scopes innermost first, every exit,
\* after a body that returned or one that raised, puts back the very pair
\* (name and spec object) that was installed when the scope was entered and
\* raises nothing of its own; with no scope left the thread has the pair it
\* had before the outermost entry.
C6_NestedScopesRestorePair ==
    \A t \in Threads :
        last_exit[t].nested =>
            /\ InstalledPair(t) =
                   IF scopes[t] = <<>> THEN InitialPair
                   ELSE NewPair(scopes[t][Len(scopes[t])])
            /\ \A i \in 1..Len(scopes[t]) :
                   OldPair(scopes[t][i]) =
                       IF i = 1 THEN InitialPair ELSE NewPair(scopes[t][i - 1])
            /\ Exited(t) =>
                   /\ InstalledPair(t) = OldPair(last_exit[t].scope)
                   /\ ret[t].error # "RuntimeError"
                   /\ ret[t].status = IF last_exit[t].body_raised THEN "raise" ELSE "ok"

\* A thread two scopes deep left the inner one through a raising body and
\* has the outer scope's device, not the initial one, installed again.
C6_Witness ==
    \E t \in Threads :
        /\ Exited(t)
        /\ last_exit[t].nested
        /\ last_exit[t].depth = 2
        /\ last_exit[t].body_raised
        /\ Len(scopes[t]) = 1
        /\ InstalledPair(t) # InitialPair
        /\ InstalledPair(t) # NewPair(last_exit[t].scope)

\* C7: an exit that finds installed a spec object other than the one its scope
\* installed raises RuntimeError and leaves the installed pair as it found it.
C7_ForeignSpecRaises ==
    \A t \in Threads :
        (Exited(t) /\ last_exit[t].device_spec # last_exit[t].scope.new_device_spec) =>
            /\ ret[t].status = "raise"
            /\ ret[t].error = "RuntimeError"
            /\ InstalledPair(t) = <<last_exit[t].device_name, last_exit[t].device_spec>>

\* A thread left its outer scope while the inner one, which had installed
\* another object, was still active; the saved pair would have differed.
C7_Witness ==
    \E t \in Threads :
        /\ Exited(t)
        /\ last_exit[t].index < last_exit[t].depth
        /\ last_exit[t].device_spec # last_exit[t].scope.new_device_spec
        /\ OldPair(last_exit[t].scope) # InstalledPair(t)
        /\ ret[t].error = "RuntimeError"

\* C8: every exit of a scope that is not the innermost active scope of its
\* thread raises RuntimeError, whatever names the scopes were entered with.
C8_ImproperNestingDetected ==
    \A t \in Threads :
        (Exited(t) /\ last_exit[t].index < last_exit[t].depth) =>
            ret[t].error = "RuntimeError"

\* Thread t has just entered a device scope, which is its innermost.
Entered(t) == Returned(t, "device") /\ scopes[t] # <<>>
Innermost(t) == scopes[t][Len(scopes[t])]

C10_CacheWritesIdempotent ==
    [][\A key \in DOMAIN device_parsing_cache :
          /\ key \in DOMAIN device_parsing_cache'
          /\ device_parsing_cache'[key][1] = device_parsing_cache[key][1]
          /\ device_spec_heap'[device_parsing_cache'[key][2]] =
                 device_spec_heap[device_parsing_cache[key][2]]]_vars

\* The number of active scopes of thread t that entered eager mode.
RECURSIVE EagerCount(_)
EagerCount(seq) ==
    IF seq = <<>> THEN 0
    ELSE (IF Head(seq).mode = EAGER_MODE THEN 1 ELSE 0) + EagerCount(Tail(seq))

\* The stack of a thread with the mode scopes seq active, entered in order.
RECURSIVE StackOver(_, _)
StackOver(stack, seq) ==
    IF seq = <<>> THEN stack
    ELSE StackOver(IF Head(seq).mode = EAGER_MODE
                   THEN Append(stack, EagerSwitch) ELSE stack,
                   Tail(seq))

\* Thread t has just left a mode scope.
ModeExited(t) == pc[t] = "idle" /\ ret[t].op = "_mode_exit"

\* C11: the depth of a thread's context switch stack is its initial depth
\* plus the number of its active eager scopes; while the thread leaves its
\* mode scopes innermost first the stack is the initial stack with one record
\* per active eager scope, so with no scope left it is the initial stack,
\* and no exit fails to pop.
C11_SwitchStackBalanced ==
    \A t \in Threads :
        /\ Len(context_switches[t]) =
               Len(last_mode_exit[t].initial_stack) + EagerCount(mode_scopes[t])
        /\ last_mode_exit[t].nested =>
               context_switches[t] =
                   StackOver(last_mode_exit[t].initial_stack, mode_scopes[t])
        /\ ModeExited(t) => ret[t].error # "IndexError"

\* A thread that entered eager mode inside graph mode has left the eager
\* scope through a raising body and, one push and one pop later, has the
\* stack it started with.
C11_Witness ==
    \E t \in Threads :
        /\ ModeExited(t)
        /\ last_mode_exit[t].nested
        /\ last_mode_exit[t].body_raised
        /\ last_mode_exit[t].scope.mode = EAGER_MODE
        /\ last_mode_exit[t].depth = 2
        /\ Len(mode_scopes[t]) = 1
        /\ mode_scopes[t][1].mode = GRAPH_MODE
        /\ context_switches[t] = last_mode_exit[t].initial_stack

\* The mode and the eager flag of a thread.
ModePair(t) == <<tld[t].mode, tld[t].is_eager>>

\* C12: in every state the eager flag of a thread says whether its mode is
\* EAGER_MODE; while the thread leaves its mode scopes innermost first, an
\* exit, after a body that returned or one that raised, puts back the mode and
\* the flag the thread had when the scope was entered, and with no scope
\* left the thread has the mode it started with.
C12_ModeRestored ==
    \A t \in Threads :
        /\ tld[t].is_eager = (tld[t].mode = EAGER_MODE)
        /\ last_mode_exit[t].nested =>
               /\ tld[t].mode =
                      IF mode_scopes[t] = <<>> THEN last_mode_exit[t].initial_mode
                      ELSE mode_scopes[t][Len(mode_scopes[t])].mode
               /\ \A i \in 1..Len(mode_scopes[t]) :
                      mode_scopes[t][i].old_mode =
                          IF i = 1 THEN last_mode_exit[t].initial_mode
                          ELSE mode_scopes[t][i - 1].mode
               /\ ModeExited(t) =>
                      ModePair(t) = <<last_mode_exit[t].scope.old_mode,
                                      last_mode_exit[t].scope.old_is_eager>>

\* A thread in graph mode inside eager mode has left the graph scope through
\* a raising body and is in eager mode again.
C12_Witness ==
    \E t \in Threads :
        /\ ModeExited(t)
        /\ last_mode_exit[t].nested
        /\ last_mode_exit[t].body_raised
        /\ last_mode_exit[t].scope.mode = GRAPH_MODE
        /\ last_mode_exit[t].scope.old_mode = EAGER_MODE
        /\ ModePair(t) = <<EAGER_MODE, TRUE>>
        /\ Len(mode_scopes[t]) = 1

\* No key occurs twice in seq.
Distinct(seq) == \A i, j \in 1..Len(seq) : i # j => seq[i] # seq[j]

\* The last n items of seq, all of them if there are fewer.
LastN(seq, n) == IF Len(seq) > n THEN SubSeq(seq, Len(seq) - n + 1, Len(seq)) ELSE seq

\* Thread t has just put a tensor into its cache.
PutDone(t) == pc[t] = "idle" /\ ret[t].op = "put"

\* C13: a cache that never was flushed and was given admissible values under
\* distinct keys holds the keys of the last max_items puts, in the order of
\* the puts: each overflowing put evicted the oldest item and only that one.
C13_FifoEviction ==
    \A t \in Threads :
        LET cache == zeros_cache[t] IN
        (~cache.flushed /\ Distinct(cache.puts)) =>
            /\ Keys(cache.data) = LastN(cache.puts, MaxItems)
            /\ PutDone(t) => ret[t].status = "ok"

\* A fresh cache was given one admissible value more than it holds, each
\* under a key of its own.
C13_Witness ==
    \E t \in Threads :
        /\ PutDone(t)
        /\ ~zeros_cache[t].flushed
        /\ Distinct(zeros_cache[t].puts)
        /\ Len(zeros_cache[t].puts) > MaxItems
        /\ Len(zeros_cache[t].data) = MaxItems

\* C14: a flush leaves the cache empty, and whatever was put, looked up and
\* flushed before, every put returns normally, the cache holds at most
\* max_items items after an operation, and the values put since the last
\* flush under distinct keys are evicted oldest first.
C14_FlushedCacheKeepsContract ==
    \A t \in Threads :
        LET cache == zeros_cache[t] IN
        /\ (pc[t] = "idle" /\ ret[t].op = "_clear_caches") => cache.data = <<>>
        /\ PutDone(t) => ret[t].status = "ok"
        /\ Len(cache.data) <= MaxItems
        /\ Distinct(cache.puts) => Keys(cache.data) = LastN(cache.puts, MaxItems)

\* C15, as stated: a put of a value with more elements than max_tensor_size
\* returns normally and leaves the cache as it was, and a get of its key
\* then finds nothing.
C15_OversizePutLeavesKeyAbsent ==
    [][\A t \in Threads : \A key \in CacheKeys : \A value \in CacheValues :
          (/\ pc[t] = "idle"
           /\ value.num_elements > MaxTensorSize
           /\ Put(t, key, value)) =>
              /\ ret'[t].status = "ok"
              /\ zeros_cache' = zeros_cache
              /\ TensorCacheGet(zeros_cache'[t], key) = None]_vars

\* C15, amended: a put of a value with more elements than max_tensor_size
\* returns normally and leaves the cache as it was, so a get of its key then
\* finds what it found before: nothing, unless the key was in the cache.
C15_OversizePutChangesNothing ==
    [][\A t \in Threads : \A key \in CacheKeys : \A value \in CacheValues :
          (/\ pc[t] = "idle"
           /\ value.num_elements > MaxTensorSize
           /\ Put(t, key, value)) =>
              /\ ret'[t].status = "ok"
              /\ zeros_cache' = zeros_cache
              /\ TensorCacheGet(zeros_cache'[t], key) =
                     TensorCacheGet(zeros_cache[t], key)]_vars

\* A thread put a value that is too large under a key its full cache holds.
C15_Witness ==
    \E t \in Threads :
        /\ PutDone(t)
        /\ ret[t].status = "ok"
        /\ frame[t].value.num_elements > MaxTensorSize
        /\ HasKey(zeros_cache[t].data, frame[t].key)
        /\ Len(zeros_cache[t].data) = MaxItems

\* Thread t begins and ends the call op in this step.
Calls(t, op) == pc[t] = "idle" /\ ret'[t].op = op

\* C16: reading the configuration changes nothing (the base configuration,
\* the overlay, the thread-local state with its cached function call options,
\* the handle and the devices) and does not go through the lazy
\* initialization; it returns the configuration the state determines, the
\* same as the read before it when nothing was called in between.
C16_ConfigIsPure ==
    [][\A t \in Threads :
          (Calls(t, "config") /\ GetConfig(t)) =>
              /\ UNCHANGED <<singletonVars, ctxFields, overlay, tld, context_handle,
                             context_devices, num_gpus, server_def,
                             collective_ops_server_def, modeVars, zeros_cache,
                             deviceVars, engine>>
              /\ ret'[t].status = "ok"
              /\ ~ret'[t].initialized
              /\ ret'[t].value = Some(Config(t))
              /\ Returned(t, "config") => ret'[t].value = ret[t].value]_vars

\* A second read in a row, after the handle was realized over a changed
\* overlay, returned a configuration that is not the base configuration.
C16_Witness ==
    \E t \in Threads :
        /\ Returned(t, "config")
        /\ ~IsNone(context_handle)
        /\ ~IsNone(base_config)
        /\ ret[t].value # base_config
        /\ ret[t].value = Some(Config(t))

\* The values set after construction, but for the optimizer options.
Deltas == StartupKnobs \cup {"optimizer_jit", "soft_device_placement"}

DeltaValues(delta) ==
    IF delta \in StartupKnobs THEN KnobValues(delta) ELSE BOOLEAN

SetDelta(t, delta, value) ==
    CASE delta = "optimizer_jit" -> SetOptimizerJit(t, value)
      [] delta = "soft_device_placement" -> SetSoftDevicePlacement(t, value)
      [] OTHER -> SetKnob(t, delta, value)

\* The fields of the configuration; the optimizer options are one of them.
ConfigFields == DOMAIN DefaultConfigProto

\* C17: a setter changes no field of the configuration, of any thread, but
\* the one its value is copied to; set_optimizer_experimental_options changes
\* no field but the options it was given.
C17_NoCrossTalk ==
    [][/\ \A t \in Threads : \A delta \in Deltas : \A value \in DeltaValues(delta) :
             (Calls(t, delta) /\ SetDelta(t, delta, value)) =>
                 \A u \in Threads :
                     LET old == Config(u)
                         new == Config(u)'
                     IN  \A f \in ConfigFields \ {ConfigField(delta)} :
                             new[f] = old[f]
       /\ \A t \in Threads : \A options \in OptionDicts :
             (/\ Calls(t, "set_optimizer_experimental_options")
              /\ SetOptimizerExperimentalOptions(t, options)) =>
                 \A u \in Threads :
                     LET old == Config(u)
                         new == Config(u)'
                     IN  /\ \A f \in ConfigFields \ {"rewrite_options"} :
                                new[f] = old[f]
                         /\ \A o \in RewriterOptions \ DOMAIN options :
                                new.rewrite_options[o] = old.rewrite_options[o]]_vars

\* With the intra-op thread count set, a thread switched the layout
\* optimizer on: the option is ON and the thread count is still the one set.
C17_Witness ==
    \E t \in Threads :
        /\ Returned(t, "set_optimizer_experimental_options")
        /\ Config(t).rewrite_options["layout_optimizer"] = "ON"
        /\ Config(t).rewrite_options["constant_folding"] = "DEFAULT"
        /\ ~IsNone(overlay.intra_op_parallelism_threads)
        /\ Config(t).intra_op_parallelism_threads =
               Val(overlay.intra_op_parallelism_threads)

\* The configuration handed to Context(config=...), or the default one.
BaseConfig == IF IsNone(base_config) THEN DefaultConfigProto ELSE Val(base_config)

\* What the configuration holds for a value set after construction.
DeltaResult(delta, value) ==
    IF delta = "optimizer_jit" THEN (IF value THEN "ON_1" ELSE "OFF") ELSE value

OptionResult(o, value) ==
    IF o \in RewriterToggles THEN (IF value THEN "ON" ELSE "OFF") ELSE value

\* C18, as stated: every field the overlay covers holds the value of the base
\* configuration while its delta is unset and the value set once it is.
C18_UnsetIsBase ==
    \A t \in Threads :
        /\ \A delta \in Deltas :
               Config(t)[ConfigField(delta)] =
                   IF IsNone(overlay[delta]) THEN BaseConfig[ConfigField(delta)]
                   ELSE DeltaResult(delta, Val(overlay[delta]))
        /\ \A o \in RewriterOptions :
               Config(t).rewrite_options[o] =
                   IF IsNone(overlay.optimizer_experimental_options[o])
                   THEN BaseConfig.rewrite_options[o]
                   ELSE OptionResult(o, Val(overlay.optimizer_experimental_options[o]))

\* C18, amended: the same for every field but the soft placement flag, which
\* holds the value set once it is set and, while unset, whether the calling
\* thread executes eagerly, whatever the base configuration says.
C18_UnsetIsBaseButSoftPlacement ==
    \A t \in Threads :
        /\ \A delta \in Deltas :
               Config(t)[ConfigField(delta)] =
                   IF ~IsNone(overlay[delta])
                   THEN DeltaResult(delta, Val(overlay[delta]))
                   ELSE IF delta = "soft_device_placement" THEN tld[t].is_eager
                   ELSE BaseConfig[ConfigField(delta)]
        /\ \A o \in RewriterOptions :
               Config(t).rewrite_options[o] =
                   IF IsNone(overlay.optimizer_experimental_options[o])
                   THEN BaseConfig.rewrite_options[o]
                   ELSE OptionResult(o, Val(overlay.optimizer_experimental_options[o]))

\* Over a base configuration that sets the intra-op thread count and the log
\* placement flag, the thread count was set again and the flag was not: the
\* configuration holds the new count, the base's flag, and a soft placement
\* flag that is not the base's.
C18_Witness ==
    \E t \in Threads :
        /\ base_config = Some(SampleConfig)
        /\ ~IsNone(overlay.intra_op_parallelism_threads)
        /\ Config(t).intra_op_parallelism_threads # SampleConfig.intra_op_parallelism_threads
        /\ IsNone(overlay.log_device_placement)
        /\ Config(t).log_device_placement
        /\ IsNone(overlay.soft_device_placement)
        /\ Config(t).allow_soft_placement # SampleConfig.allow_soft_placement

\* C19: a read of the configuration returns the soft placement flag that
\* was set, whatever the mode; with none set, it returns whether the mode of
\* the calling thread, the one its mode scopes left it in, is EAGER_MODE.
C19_SoftPlacementFollowsMode ==
    [][\A t \in Threads :
          (Calls(t, "config") /\ GetConfig(t)) =>
              Val(ret'[t].value).allow_soft_placement =
                  IF IsNone(overlay.soft_device_placement)
                  THEN tld[t].mode = EAGER_MODE
                  ELSE Val(overlay.soft_device_placement)]_vars

\* With no soft placement flag set, a thread inside a graph scope read a
\* configuration without soft placement while another thread was eager.
C19_Witness ==
    \E t, u \in Threads :
        /\ Returned(t, "config")
        /\ IsNone(overlay.soft_device_placement)
        /\ mode_scopes[t] # <<>>
        /\ tld[t].mode = GRAPH_MODE
        /\ ~Val(ret[t].value).allow_soft_placement
        /\ tld[u].mode = EAGER_MODE

\* The options function_call_options derives in the current state.
DerivedOptions(t) ==
    FunctionCallOptions(
        [Config(t) EXCEPT !.allow_soft_placement =
            IF IsNone(overlay.soft_device_placement)
            THEN TRUE
            ELSE Val(overlay.soft_device_placement)])

\* C20: a read of the function call options derives them exactly when the
\* calling thread has none cached: then they are the configuration with soft
\* placement on, or as set, and become the thread's cached options; otherwise
\* the read returns the cached options and leaves every thread's as they are.
C20_OptionsBuiltOnce ==
    [][\A t \in Threads :
          (Calls(t, "function_call_options") /\ GetFunctionCallOptions(t)) =>
              /\ ret'[t].built = IsNone(tld[t].function_call_options)
              /\ ret'[t].value = tld'[t].function_call_options
              /\ \A u \in Threads \ {t} :
                     tld'[u].function_call_options = tld[u].function_call_options
              /\ IF IsNone(tld[t].function_call_options)
                 THEN ret'[t].value = Some(DerivedOptions(t))
                 ELSE ret'[t].value = tld[t].function_call_options]_vars

\* A read returned the cached options, which are not the ones a derivation
\* would give now: they were built in graph mode with soft placement forced
\* on, and another thread has switched soft placement off since they were built.
C20_Witness ==
    \E t \in Threads :
        /\ Returned(t, "function_call_options")
        /\ ~ret[t].built
        /\ tld[t].mode = GRAPH_MODE
        /\ ret[t].value = tld[t].function_call_options
        /\ overlay.soft_device_placement = Some(FALSE)
        /\ <<"allow_soft_placement", TRUE>> \in
               Val(ret[t].value).config_proto_serialized
        /\ ret[t].value # Some(DerivedOptions(t))

\* The calls whose setters clear the cached function call options.
Mutators ==
    {"optimizer_jit", "set_optimizer_experimental_options",
     "soft_device_placement", "log_device_placement"}

\* C21: a thread whose last call set the JIT flag, optimizer options, soft
\* placement or log placement and returned has no function call options
\* cached; its next read of the options derives them, from the configuration
\* as it is then, and caches them.
C21_MutationClearsCallersOptions ==
    [][\A t \in Threads :
          (\E m \in Mutators : Returned(t, m)) =>
              /\ IsNone(tld[t].function_call_options)
              /\ (Calls(t, "function_call_options") /\ GetFunctionCallOptions(t)) =>
                     /\ ret'[t].built
                     /\ ret'[t].value = Some(DerivedOptions(t))
                     /\ tld'[t].function_call_options = ret'[t].value]_vars

\* A thread that had options cached without JIT switched JIT on: the options
\* are gone, and the ones a read derives now carry the JIT level.
C21_Witness ==
    \E t \in Threads :
        /\ Returned(t, "optimizer_jit")
        /\ ret[t].dropped
        /\ IsNone(tld[t].function_call_options)
        /\ <<"global_jit_level", "ON_1">> \in
               DerivedOptions(t).config_proto_serialized

\* C22: the options a read of the function call options returns, on any
\* thread, are the ones derived from the configuration with every value set
\* so far, by whichever thread.
C22_InvalidationReachesEveryThread ==
    [][\A t \in Threads :
          (Calls(t, "function_call_options") /\ GetFunctionCallOptions(t)) =>
              ret'[t].value = Some(DerivedOptions(t))]_vars

\* The engine opens the handle in this step.
Opens == IsNone(engine.opened) /\ ~IsNone(engine'.opened)

\* C23: a set of the execution mode leaves the handle as it is and does not
\* go through the lazy initialization; it calls the engine only if the
\* handle exists; and the handle is opened with the mode last set, by any
\* thread, while no handle existed.
C23_LastModeSetIsOpenedWith ==
    [][/\ \A t \in Threads : \A mode \in ExecutionModeArgs :
             (Calls(t, "execution_mode") /\ SetExecutionMode(t, mode)) =>
                 /\ context_handle' = context_handle
                 /\ ~ret'[t].initialized
                 /\ IsNone(context_handle) => engine' = engine
       /\ (Opens /\ ~IsNone(hist.mode_staged)) =>
              Val(engine'.opened).async = (Val(hist.mode_staged) = ASYNC)]_vars

\* C24: a set of the placement policy made while the handle exists leaves
\* the engine using that policy for the calling thread, and the handle is
\* opened with the policy last set, by any thread, while no handle existed.
C24_PolicySetReachesEngine ==
    [][/\ \A t \in Threads : \A policy \in DevicePolicyArgs :
             (/\ Calls(t, "device_policy")
              /\ SetDevicePolicy(t, policy)
              /\ ~IsNone(context_handle)) =>
                 EnginePolicy(t)' = Val(ret'[t].value)
       /\ (Opens /\ ~IsNone(hist.policy_staged)) =>
              Val(engine'.opened).device_policy = Val(hist.policy_staged)]_vars

\* C29: a thread whose last call set the execution mode and returned, with
\* no set by another thread since, reads that mode back, before and after
\* the handle is realized; a set of a value that is no mode raises ValueError
\* and changes neither the Context, nor the thread-local state, nor the engine.
C29_ExecutionModeRoundTrip ==
    [][\A t \in Threads :
          /\ (/\ Returned(t, "execution_mode")
              /\ hist.mode_set = Some([thread |-> t, mode |-> Val(ret[t].value)])
              /\ Calls(t, "get_execution_mode")
              /\ GetExecutionMode(t)) =>
                 ret'[t].value = ret[t].value
          /\ (Calls(t, "execution_mode") /\ SetExecutionMode(t, Some(2))) =>
                 /\ ret'[t].status = "raise"
                 /\ ret'[t].error = "ValueError"
                 /\ UNCHANGED <<c_execution_mode, tld, engine, context_handle>>]_vars

\* C30: with the handle realized, the execution mode a thread reads is the
\* one the engine uses for that thread.
C30_GetterReportsEngineMode ==
    [][\A t \in Threads :
          (/\ ~IsNone(context_handle)
           /\ Calls(t, "get_execution_mode")
           /\ GetExecutionMode(t)) =>
              Val(ret'[t].value) = EngineMode(t)]_vars

\* C27: device() called with a name that is no string, or no well-formed
\* device string, raises ValueError at once: no scope is entered, and the
\* thread's device name and spec, the device parsing cache, the handle and
\* the device list are as they were; the lazy initialization is not begun.
C27_BadNameRaisesBeforeAnything ==
    [][\A t \in Threads : \A name \in BadNames :
          (Calls(t, "device") /\ DeviceEnter(t, name)) =>
              /\ pc'[t] = "idle"
              /\ ret'[t].status = "raise"
              /\ ret'[t].error = "ValueError"
              /\ ~ret'[t].initialized
              /\ UNCHANGED <<tld, scopes, device_parsing_cache, device_spec_heap,
                             context_handle, context_devices, num_gpus,
                             initialize_lock, engine>>]_vars

\* Inside a device scope, with an entry in the cache, a thread asked for a
\* name device() refuses and got ValueError; it is still in that one scope.
C27_Witness ==
    \E t \in Threads :
        /\ pc[t] = "idle"
        /\ ret[t].op = "device"
        /\ ret[t].error = "ValueError"
        /\ frame[t].name \in BadNames
        /\ tld[t].device_name # EmptyName
        /\ Len(scopes[t]) = 1
        /\ DOMAIN device_parsing_cache # {}

\* C28: the entry device() stores on a miss for a non-empty name is under the
\* key (the thread's device name at entry, the name asked for); its spec has
\* each field the name gives from the name and the others from the base, the
\* thread's spec if its device name is not empty and the first device of the
\* list otherwise, and its name is that spec as a string; the call went
\* through the lazy initialization in the second case only; the other
\* entries stay.
C28_MissMergesRequestIntoBase ==
    [][\A t \in Threads :
          (/\ pc[t] = "device_store"
           /\ DeviceStore(t)
           /\ frame[t].name \notin {None, Some(EmptyName)}) =>
              LET key == <<tld[t].device_name, frame[t].name>>
                  request == FromString(Val(frame[t].name)).spec
                  base == IF tld[t].device_name # EmptyName
                          THEN Fields(tld[t].device_spec)
                          ELSE FromString(Val(context_devices)[1]).spec
                  merged == [f \in DOMAIN EmptySpecFields |->
                                IF IsNone(request[f]) THEN base[f] ELSE request[f]]
              IN  /\ DOMAIN device_parsing_cache' =
                         DOMAIN device_parsing_cache \cup {key}
                  /\ device_parsing_cache'[key][1] = SpecToString(merged)
                  /\ device_spec_heap'[device_parsing_cache'[key][2]] = merged
                  /\ \A k \in DOMAIN device_parsing_cache \ {key} :
                         /\ device_parsing_cache'[k] = device_parsing_cache[k]
                         /\ device_spec_heap'[device_parsing_cache[k][2]] =
                                Fields(device_parsing_cache[k][2])
                  /\ ret[t].initialized = (tld[t].device_name = EmptyName)
                  /\ UNCHANGED <<context_handle, context_devices>>]_vars

\* Inside a scope on the GPU a thread asked for "/job:worker": the entry
\* under (the GPU's name, "/job:worker") has the job asked for and the device
\* of the base, and the call did not go through the lazy initialization.
C28_Witness ==
    \E t \in Threads :
        LET key == <<DeviceName("localhost", "GPU"), Some(<< <<"job", "worker">> >>)>>
        IN  /\ Returned(t, "device")
            /\ ~ret[t].initialized
            /\ key \in DOMAIN device_parsing_cache
            /\ Fields(device_parsing_cache[key][2]) =
                   [job |-> Some("worker"), replica |-> Some("0"), task |-> Some("0"),
                    device_type |-> Some("GPU"), device_index |-> Some("0")]
            /\ tld[t].device_name = device_parsing_cache[key][1]

\* C26: a step one thread takes in a mode scope, a device scope, a naming
\* scope or on its tensor cache leaves the mode, the eager flag, the device
\* name and spec, the scope name, the context switch stack and the tensor
\* cache of every other thread as they were.
C26_ScopedStateIsThreadLocal ==
    [][\A t \in Threads :
          ScopedStep(t) =>
              \A u \in Threads \ {t} :
                  /\ tld'[u] = tld[u]
                  /\ context_switches'[u] = context_switches[u]
                  /\ zeros_cache'[u] = zeros_cache[u]
                  /\ scopes'[u] = scopes[u]
                  /\ mode_scopes'[u] = mode_scopes[u]]_vars

\* One thread is in a graph scope and on the GPU, with a scope name and a
\* tensor cached, while another one has the state it started with.
C26_Witness ==
    \E t, u \in Threads :
        /\ tld[t].mode = GRAPH_MODE
        /\ tld[t].device_name # EmptyName
        /\ tld[t].scope_name = "outer/"
        /\ zeros_cache[t].data # <<>>
        /\ tld[u] = InitialThreadLocalData(EAGER_MODE)
        /\ context_switches[u] = InitialSwitchStack(TRUE)
        /\ zeros_cache[u] = EmptyTensorCache


\* C25: context() hands the one process-wide Context to every caller on every
\* thread: however the first calls interleave, _initialize_context makes at
\* most one Context, a call that returned made exactly one exist and returned
\* the published one, and a published _context is never replaced or reset.
C25_OneContextForAll ==
    /\ [](/\ contexts <= 1
          /\ \A t \in Threads :
                 Returned(t, "context") =>
                     /\ contexts = 1
                     /\ ret[t].value = Some(1)
                     /\ ret[t].value = _context)
    /\ [][~IsNone(_context) => _context' = _context]_vars

\* Two first calls overlapped: one thread, which found no Context published
\* at line 1034, is still inside _initialize_context when the other has
\* returned the one Context that was made.
C25_Witness ==
    \E t, u \in Threads :
        /\ t # u
        /\ Returned(t, "context")
        /\ pc[u] = "context_unlock"
        /\ ret[u].op = "context"
        /\ calls = 2
        /\ contexts = 1
        /\ ret[t].value = _context


\* C31: the tensor cache evicts in the order of insertion, not of use: a get
\* leaves the cache as it was, a put under a key the cache holds replaces the
\* value in place (same keys in the same order, nothing evicted), and a put
\* under a new key into a full cache that never was flushed evicts the item
\* that was first before it and appends the new one.
C31_EvictionFollowsInsertion ==
    [][\A t \in Threads :
          LET old == zeros_cache[t].data
              new == zeros_cache'[t].data
              key == frame'[t].key
              value == frame'[t].value
          IN
          /\ Calls(t, "get") => zeros_cache' = zeros_cache
          /\ (Calls(t, "put") /\ value.num_elements <= MaxTensorSize) =>
                 IF HasKey(old, key)
                 THEN /\ Len(new) = Len(old)
                      /\ \A i \in 1..Len(old) :
                             new[i] = IF old[i][1] = key THEN <<key, value>>
                                      ELSE old[i]
                 ELSE (zeros_cache[t].ordered /\ Len(old) = MaxItems) =>
                          /\ ret'[t].status = "ok"
                          /\ new = Tail(old) \o << <<key, value>> >>]_vars

\* A key was looked up, the oldest item of a full cache was given another
\* value, and the put of a new key that followed still evicted that item.
C31_Witness ==
    \E t \in Threads :
        LET cache == zeros_cache[t] IN
        /\ PutDone(t)
        /\ ~cache.flushed
        /\ Len(cache.puts) = MaxItems + 2
        /\ cache.puts[1] = cache.puts[MaxItems + 1]
        /\ Distinct(Tail(cache.puts))
        /\ ~HasKey(cache.data, cache.puts[1])
        /\ Len(cache.data) = MaxItems
        /\ calls = MaxCacheCalls


\* C32: whenever the handle exists, the startup-only fields of the
\* configuration every thread derives are the ones the engine was opened
\* with: a set that raced with the realization either came before the
\* configuration was derived for the engine or was refused.
C32_StartupKnobsFrozenAtOpen ==
    ~IsNone(context_handle) =>
        \A u \in Threads : \A knob \in StartupKnobs :
            Config(u)[ConfigField(knob)] =
                Val(engine.opened).config[ConfigField(knob)]


\* The positions inside the `with self._initialize_lock` block.
InsideLock ==
    {"init_config", "init_open", "init_serverdef", "devices_reset",
     "devices_list", "devices_loop"}

\* C33: under fair scheduling every call that goes through the lazy
\* initialization ends, by returning or by raising (the calls of a run being
\* finitely many, the run reaches a point from which on no thread is inside
\* a call); the initialization lock is held only by a thread inside the
\* `with` block (so it was released on every way out of it: the early
\* return, success, a failure of the engine, a failed assertion), and a
\* thread waiting for the lock never is its holder.
C33_LazyInitTerminates ==
    /\ [](\A t \in Threads :
              /\ initialize_lock = Some(t) => pc[t] \in InsideLock
              /\ pc[t] = "init_lock" => initialize_lock # Some(t))
    /\ <>[](\A t \in Threads : pc[t] = "idle")

\* One thread's request ended with the engine's error and the lock was given
\* back: the other thread, which had to go through the initialization itself,
\* got the handle.
C33_Witness ==
    \E t, u \in Threads :
        /\ t # u
        /\ pc[t] = "idle" /\ ret[t].initialized
        /\ ret[t].status = "raise" /\ ret[t].error = "EngineError"
        /\ Returned(u, "_handle") /\ ret[u].initialized
        /\ ~IsNone(ret[u].handle)
        /\ IsNone(initialize_lock)

====
